---- MODULE Spec2Model ----
(***************************************************************************)
(* Model of the Aviatrix Python 3 SDK (src/aviatrix/__init__.py): one      *)
(* Aviatrix session object, the call pipeline _avx_api_call, login and the *)
(* action wrappers built on the pipeline.                                  *)
(*                                                                         *)
(* Python values are tagged records [t, v]; text is kept at character      *)
(* level (a sequence of one-character strings) so that slicing, the        *)
(* bytes/str distinction and JSON decoding are computed, not assumed.      *)
(***************************************************************************)
EXTENDS Integers, Sequences, FiniteSets, TLC

(***************************************************************************)
(* Python values                                                           *)
(***************************************************************************)
PyNone == [t |-> "None", v |-> <<>>]

PyStr(cs) == [t |-> "str", v |-> cs]

PyBytes(cs) == [t |-> "bytes", v |-> cs]

PyBool(b) == [t |-> "bool", v |-> b]

PyInt(n) == [t |-> "int", v |-> n]

PyList(xs) == [t |-> "list", v |-> xs]

PyDict(m) == [t |-> "dict", v |-> m]

EmptyMap == [k \in {} |-> PyNone]

\* A datetime.datetime (naive, UTC) as its microseconds since Util.EPOCH
PyDatetime(us) == [t |-> "datetime", v |-> us]

\* a == b for Python objects: objects of different types are never equal
\* (in particular bytes never equal str).
PyEq(a, b) == a.t = b.t /\ a.v = b.v

\* x[lo:hi] on str/bytes (0-based, hi exclusive, clipped to the length).
Slice(x, lo, hi) ==
    [t |-> x.t,
     v |-> SubSeq(x.v, lo + 1, IF hi < Len(x.v) THEN hi ELSE Len(x.v))]

\* Truth value of a Python object (the operand of `not` / `if`).
Truthy_notNone(x) == x # PyNone

Truthy(x) ==
    CASE x.t = "None" -> FALSE
      [] x.t = "bool" -> x.v
      [] x.t = "int" -> x.v # 0
      [] x.t = "dict" -> DOMAIN x.v # {}
      [] OTHER -> Len(x.v) > 0

\* cs occurs in xs as a contiguous run (str `in` str).
IsSubstring(cs, xs) ==
    \E i \in 1..(Len(xs) + 1) :
        /\ i + Len(cs) - 1 <= Len(xs)
        /\ SubSeq(xs, i, i + Len(cs) - 1) = cs

(***************************************************************************)
(* Exceptions: type, fixed message text, and the object carried in args.   *)
(***************************************************************************)
NoExc == [type |-> "none", msg |-> "", arg |-> PyNone]

Exc(type, msg, arg) == [type |-> type, msg |-> msg, arg |-> arg]

\* isinstance(exc, ValueError): json.JSONDecodeError subclasses ValueError.
IsValueError(e) == e.type \in {"ValueError", "JSONDecodeError"}

\* `key in x` with a str key: result or TypeError for non-containers.
Contains(x, key) ==
    CASE x.t = "dict" -> [exc |-> NoExc, val |-> key \in DOMAIN x.v]
      [] x.t = "list" ->
            [exc |-> NoExc,
             val |-> \E i \in 1..Len(x.v) : PyEq(x.v[i], PyStr(key))]
      [] x.t = "str" -> [exc |-> NoExc, val |-> IsSubstring(key, x.v)]
      [] OTHER ->
            [exc |-> Exc("TypeError", "argument is not iterable", x),
             val |-> FALSE]

\* x[key] with a str key: value, KeyError (dict) or TypeError (others).
GetItem(x, key) ==
    IF x.t = "dict"
    THEN IF key \in DOMAIN x.v
         THEN [exc |-> NoExc, val |-> x.v[key]]
         ELSE [exc |-> Exc("KeyError", "", PyStr(key)), val |-> PyNone]
    ELSE [exc |-> Exc("TypeError", "indices must be integers", PyStr(key)),
          val |-> PyNone]

(***************************************************************************)
(* json.loads over the alphabet of the modelled bodies: objects, arrays,   *)
(* strings without escapes, non-negative integers, true, false, null and   *)
(* blanks.  Anything else fails with JSONDecodeError and its message.      *)
(***************************************************************************)
DecodeFail(msg) == [ok |-> FALSE, val |-> PyNone, pos |-> 0, msg |-> msg]

DecodeOk(val, pos) == [ok |-> TRUE, val |-> val, pos |-> pos, msg |-> ""]

IsWS(c) == c \in {" ", "\n"}

Digits == <<"0", "1", "2", "3", "4", "5", "6", "7", "8", "9">>

IsDigit(c) == \E d \in 1..10 : Digits[d] = c

DigitVal(c) == (CHOOSE d \in 1..10 : Digits[d] = c) - 1

RECURSIVE SkipWS(_, _)
SkipWS(s, i) == IF i <= Len(s) /\ IsWS(s[i]) THEN SkipWS(s, i + 1) ELSE i

\* s[i..] starts with the characters lit
StartsWith(s, i, lit) ==
    /\ i + Len(lit) - 1 <= Len(s)
    /\ SubSeq(s, i, i + Len(lit) - 1) = lit

\* position of the closing quote of a string whose content starts at i, or 0
RECURSIVE ClosingQuote(_, _)
ClosingQuote(s, i) ==
    IF i > Len(s) THEN 0
    ELSE IF s[i] = "\"" THEN i
    ELSE ClosingQuote(s, i + 1)

scanstring(s, i) ==
    LET j == ClosingQuote(s, i)
    IN  IF j = 0 THEN DecodeFail("Unterminated string starting at")
        ELSE DecodeOk(PyStr(SubSeq(s, i, j - 1)), j + 1)

\* (0|[1-9][0-9]*): a leading 0 is a complete number
RECURSIVE ScanDigits(_, _, _)
ScanDigits(s, i, acc) ==
    IF i <= Len(s) /\ IsDigit(s[i])
    THEN ScanDigits(s, i + 1, 10 * acc + DigitVal(s[i]))
    ELSE DecodeOk(PyInt(acc), i)

scannumber(s, i) ==
    IF s[i] = "0" THEN DecodeOk(PyInt(0), i + 1) ELSE ScanDigits(s, i, 0)

RECURSIVE scan_once(_, _), JSONObjectMembers(_, _, _), JSONArrayItems(_, _, _)
scan_once(s, i) ==
    IF i > Len(s) THEN DecodeFail("Expecting value")
    ELSE CASE s[i] = "\"" -> scanstring(s, i + 1)
           [] s[i] = "{" ->
                LET j == SkipWS(s, i + 1)
                IN  IF j <= Len(s) /\ s[j] = "}"
                    THEN DecodeOk(PyDict(EmptyMap), j + 1)
                    ELSE JSONObjectMembers(s, j, EmptyMap)
           [] s[i] = "[" ->
                LET j == SkipWS(s, i + 1)
                IN  IF j <= Len(s) /\ s[j] = "]"
                    THEN DecodeOk(PyList(<<>>), j + 1)
                    ELSE JSONArrayItems(s, j, <<>>)
           [] StartsWith(s, i, <<"n", "u", "l", "l">>) -> DecodeOk(PyNone, i + 4)
           [] StartsWith(s, i, <<"t", "r", "u", "e">>) ->
                DecodeOk(PyBool(TRUE), i + 4)
           [] StartsWith(s, i, <<"f", "a", "l", "s", "e">>) ->
                DecodeOk(PyBool(FALSE), i + 5)
           [] IsDigit(s[i]) -> scannumber(s, i)
           [] OTHER -> DecodeFail("Expecting value")

\* i is where the next property name must start; m holds the pairs so far
\* (a repeated key keeps the last value, as a Python dict does).
JSONObjectMembers(s, i, m) ==
    IF i > Len(s) \/ s[i] # "\""
    THEN DecodeFail("Expecting property name enclosed in double quotes")
    ELSE LET k == scanstring(s, i + 1)
         IN  IF ~k.ok THEN k
             ELSE LET c == SkipWS(s, k.pos)
                  IN  IF c > Len(s) \/ s[c] # ":"
                      THEN DecodeFail("Expecting ':' delimiter")
                      ELSE LET val == scan_once(s, SkipWS(s, c + 1))
                           IN  IF ~val.ok THEN val
                               ELSE LET e == SkipWS(s, val.pos)
                                        m2 == (k.val.v :> val.val) @@ m
                                    IN  IF e > Len(s)
                                        THEN DecodeFail("Expecting ',' delimiter")
                                        ELSE IF s[e] = "}"
                                        THEN DecodeOk(PyDict(m2), e + 1)
                                        ELSE IF s[e] = ","
                                        THEN JSONObjectMembers(s, SkipWS(s, e + 1), m2)
                                        ELSE DecodeFail("Expecting ',' delimiter")

\* i is where the next array item must start; xs holds the items so far
JSONArrayItems(s, i, xs) ==
    LET val == scan_once(s, i)
    IN  IF ~val.ok THEN val
        ELSE LET e == SkipWS(s, val.pos)
                 xs2 == Append(xs, val.val)
             IN  IF e > Len(s) THEN DecodeFail("Expecting ',' delimiter")
                 ELSE IF s[e] = "]" THEN DecodeOk(PyList(xs2), e + 1)
                 ELSE IF s[e] = ","
                 THEN JSONArrayItems(s, SkipWS(s, e + 1), xs2)
                 ELSE DecodeFail("Expecting ',' delimiter")

\* The JSON decoder applied to the text of x (str or bytes): the decoded
\* object, or JSONDecodeError
json_decode(x) ==
    LET s == x.v
        r == scan_once(s, SkipWS(s, 1))
    IN  IF ~r.ok
        THEN [exc |-> Exc("JSONDecodeError", r.msg, PyNone), val |-> PyNone]
        ELSE IF SkipWS(s, r.pos) # Len(s) + 1
        THEN [exc |-> Exc("JSONDecodeError", "Extra data", PyNone), val |-> PyNone]
        ELSE [exc |-> NoExc, val |-> r.val]

(***************************************************************************)
(* Dictionaries written by the code keep insertion order: a sequence of    *)
(* <<key, value>> pairs with distinct keys.                                *)
(***************************************************************************)
HasKey(items, key) == \E i \in DOMAIN items : items[i][1] = key

\* d[key] = value: an existing key keeps its position, a new one is appended
SetItem(items, key, value) ==
    IF HasKey(items, key)
    THEN [i \in DOMAIN items |->
            IF items[i][1] = key THEN <<key, value>> ELSE items[i]]
    ELSE Append(items, <<key, value>>)

\* the mapping held by a dictionary, without its order
AsMap(items) ==
    [key \in {items[i][1] : i \in DOMAIN items} |->
        items[CHOOSE i \in DOMAIN items : items[i][1] = key][2]]

(***************************************************************************)
(* urllib.parse.urlencode and the conversions it applies                   *)
(***************************************************************************)
RECURSIVE DecimalDigits(_)
DecimalDigits(n) ==
    IF n < 10 THEN <<Digits[n + 1]>>
    ELSE DecimalDigits(n \div 10) \o <<Digits[(n % 10) + 1]>>

\* str(x) for the values the wrappers put into a parameter dictionary
str(x) ==
    CASE x.t = "str" -> x.v
      [] x.t = "int" -> DecimalDigits(x.v)
      [] x.t = "bool" -> IF x.v THEN <<"T", "r", "u", "e">>
                         ELSE <<"F", "a", "l", "s", "e">>
      [] x.t = "None" -> <<"N", "o", "n", "e">>

\* characters quote() never escapes
ALWAYS_SAFE ==
    {"A", "B", "C", "D", "E", "F", "G", "H", "I", "J", "K", "L", "M",
     "N", "O", "P", "Q", "R", "S", "T", "U", "V", "W", "X", "Y", "Z",
     "a", "b", "c", "d", "e", "f", "g", "h", "i", "j", "k", "l", "m",
     "n", "o", "p", "q", "r", "s", "t", "u", "v", "w", "x", "y", "z",
     "0", "1", "2", "3", "4", "5", "6", "7", "8", "9", "_", ".", "-",
     "~"}

\* %XX of the other characters of the modelled alphabet
PercentCode ==
    ("&" :> <<"%", "2", "6">>) @@ ("/" :> <<"%", "2", "F">>) @@ ("="
    :> <<"%", "3", "D">>) @@ ("%" :> <<"%", "2", "5">>) @@ (":" :>
    <<"%", "3", "A">>) @@ ("@" :> <<"%", "4", "0">>) @@ ("," :> <<"%",
    "2", "C">>) @@ ("+" :> <<"%", "2", "B">>) @@ ("?" :> <<"%", "3",
    "F">>) @@ ("[" :> <<"%", "5", "B">>) @@ ("]" :> <<"%", "5", "D">>)

\* quote_plus(cs): safe characters stay, a blank becomes +, the rest %XX
quote_plus_spaceOnly(cs) ==
    [i \in 1..Len(cs) |-> IF cs[i] = " " THEN "+" ELSE cs[i]]

RECURSIVE quote_plus(_)
quote_plus(cs) ==
    IF cs = <<>> THEN <<>>
    ELSE (IF Head(cs) \in ALWAYS_SAFE THEN <<Head(cs)>>
          ELSE IF Head(cs) = " " THEN <<"+">>
          ELSE PercentCode[Head(cs)])
         \o quote_plus(Tail(cs))

(***************************************************************************)
(* Character-level literals used by the code and by the modelled inputs    *)
(***************************************************************************)
s_Error == <<"E", "r", "r", "o", "r", ":">>

s_return == <<"r", "e", "t", "u", "r", "n">>

s_reason == <<"r", "e", "a", "s", "o", "n">>

s_results == <<"r", "e", "s", "u", "l", "t", "s">>

s_CID == <<"C", "I", "D">>

s_action == <<"a", "c", "t", "i", "o", "n">>

s_username == <<"u", "s", "e", "r", "n", "a", "m", "e">>

s_password == <<"p", "a", "s", "s", "w", "o", "r", "d">>

s_login == <<"l", "o", "g", "i", "n">>

s_public_ip == <<"p", "u", "b", "l", "i", "c", "_", "i", "p">>

s_public == <<"p", "u", "b", "l", "i", "c">>

s_yes == <<"y", "e", "s">>

s_admin_email == <<"a", "d", "m", "i", "n", "_", "e", "m", "a", "i", "l">>

s_add_admin_email_addr ==
    <<"a", "d", "d", "_", "a", "d", "m", "i", "n", "_", "e", "m", "a", "i", "l",
      "_", "a", "d", "d", "r">>

s_list_vpn_users ==
    <<"l", "i", "s", "t", "_", "v", "p", "n", "_", "u", "s", "e", "r", "s">>

\* The parameter names, result fields and fixed values of the wrappers, as
\* texts
Key ==
    [account_name |->
         <<"a", "c", "c", "o", "u", "n", "t", "_", "n", "a", "m", "e">>,
     cloud_type |-> <<"c", "l", "o", "u", "d", "_", "t", "y", "p", "e">>,
     gw_name |-> <<"g", "w", "_", "n", "a", "m", "e">>,
     vpc_id |-> <<"v", "p", "c", "_", "i", "d">>,
     vpc_reg |-> <<"v", "p", "c", "_", "r", "e", "g">>,
     vpc_size |-> <<"v", "p", "c", "_", "s", "i", "z", "e">>,
     vpc_net |-> <<"v", "p", "c", "_", "n", "e", "t">>,
     region |-> <<"r", "e", "g", "i", "o", "n">>,
     public_subnet |->
         <<"p", "u", "b", "l", "i", "c", "_", "s", "u", "b", "n", "e", "t">>,
     gw_size |-> <<"g", "w", "_", "s", "i", "z", "e">>,
     enable_nat |-> <<"e", "n", "a", "b", "l", "e", "_", "n", "a", "t">>,
     dns_server |-> <<"d", "n", "s", "_", "s", "e", "r", "v", "e", "r">>,
     lb_name |-> <<"l", "b", "_", "n", "a", "m", "e">>,
     vpc_id_or_dns_name |->
         <<"v", "p", "c", "_", "i", "d", "_", "o", "r", "_", "d", "n", "s",
           "_", "n", "a", "m", "e">>,
     dns |-> <<"d", "n", "s">>,
     external_user |->
         <<"e", "x", "t", "e", "r", "n", "a", "l", "_", "u", "s", "e", "r">>,
     use_profile |->
         <<"u", "s", "e", "_", "p", "r", "o", "f", "i", "l", "e">>,
     user_email |-> <<"u", "s", "e", "r", "_", "e", "m", "a", "i", "l">>,
     profile_name |->
         <<"p", "r", "o", "f", "i", "l", "e", "_", "n", "a", "m", "e">>,
     saml_endpoint |->
         <<"s", "a", "m", "l", "_", "e", "n", "d", "p", "o", "i", "n", "t">>,
     start_time |-> <<"s", "t", "a", "r", "t", "_", "t", "i", "m", "e">>,
     end_time |-> <<"e", "n", "d", "_", "t", "i", "m", "e">>,
     ds_name |-> <<"d", "s", "_", "n", "a", "m", "e">>,
     db_id |-> <<"d", "b", "_", "i", "d">>,
     pair_list |-> <<"p", "a", "i", "r", "_", "l", "i", "s", "t">>,
     vpc_name |-> <<"v", "p", "c", "_", "n", "a", "m", "e">>,
     id |-> <<"i", "d">>,
     rate_total |-> <<"r", "a", "t", "e", "_", "t", "o", "t", "a", "l">>,
     tag_name |-> <<"t", "a", "g", "_", "n", "a", "m", "e">>,
     new_policies |->
         <<"n", "e", "w", "_", "p", "o", "l", "i", "c", "i", "e", "s">>,
     name |-> <<"n", "a", "m", "e">>,
     cidr |-> <<"c", "i", "d", "r">>]

\* The action names of the wrappers, as texts
ActionName ==
    [connect_container |->
         <<"c", "o", "n", "n", "e", "c", "t", "_", "c", "o", "n", "t", "a",
           "i", "n", "e", "r">>,
     create_spoke_gw |->
         <<"c", "r", "e", "a", "t", "e", "_", "s", "p", "o", "k", "e", "_",
           "g", "w">>,
     list_vpcs_summary |->
         <<"l", "i", "s", "t", "_", "v", "p", "c", "s", "_", "s", "u", "m",
           "m", "a", "r", "y">>,
     list_peer_vpc_pairs |->
         <<"l", "i", "s", "t", "_", "p", "e", "e", "r", "_", "v", "p", "c",
           "_", "p", "a", "i", "r", "s">>,
     attach_vpn_user |->
         <<"a", "t", "t", "a", "c", "h", "_", "v", "p", "n", "_", "u", "s",
           "e", "r">>,
     get_statistics |->
         <<"g", "e", "t", "_", "s", "t", "a", "t", "i", "s", "t", "i", "c",
           "s">>,
     show_packets_stat_for_gw |->
         <<"s", "h", "o", "w", "_", "p", "a", "c", "k", "e", "t", "s", "_",
           "s", "t", "a", "t", "_", "f", "o", "r", "_", "g", "w">>,
     update_policy_members |->
         <<"u", "p", "d", "a", "t", "e", "_", "p", "o", "l", "i", "c", "y",
           "_", "m", "e", "m", "b", "e", "r", "s">>]

\* CREATE_GW_ALLOWED, lines 237-250
CREATE_GW_ALLOWED ==
    {<<"c", "l", "o", "u", "d", "_", "t", "y", "p", "e">>,
     <<"a", "c", "c", "o", "u", "n", "t", "_", "n", "a", "m", "e">>,
     <<"g", "w", "_", "n", "a", "m", "e">>,
     <<"v", "p", "c", "_", "r", "e", "g">>,
     <<"z", "o", "n", "e">>,
     <<"v", "p", "c", "_", "n", "e", "t">>,
     <<"v", "p", "c", "_", "s", "i", "z", "e">>,
     <<"v", "p", "c", "_", "i", "d">>,
     <<"e", "n", "a", "b", "l", "e", "_", "n", "a", "t">>,
     <<"v", "p", "n", "_", "a", "c", "c", "e", "s", "s">>,
     <<"c", "i", "d", "r">>,
     <<"o", "t", "p", "_", "m", "o", "d", "e">>,
     <<"d", "u", "o", "_", "i", "n", "t", "e", "g", "r", "a", "t", "i", "o", "n", "_", "k", "e", "y">>,
     <<"d", "u", "o", "_", "s", "e", "c", "r", "e", "t", "_", "k", "e", "y">>,
     <<"d", "u", "o", "_", "a", "p", "i", "_", "h", "o", "s", "t", "n", "a", "m", "e">>,
     <<"d", "u", "o", "_", "p", "u", "s", "h", "_", "m", "o", "d", "e">>,
     <<"o", "k", "t", "a", "_", "u", "r", "l">>,
     <<"o", "k", "t", "a", "_", "t", "o", "k", "e", "n">>,
     <<"o", "k", "t", "a", "_", "u", "s", "e", "r", "n", "a", "m", "e", "_", "s", "u", "f", "f", "i", "x">>,
     <<"e", "n", "a", "b", "l", "e", "_", "e", "l", "b">>,
     <<"e", "l", "b", "_", "n", "a", "m", "e">>,
     <<"e", "n", "a", "b", "l", "e", "_", "c", "l", "i", "e", "n", "t", "_", "c", "e", "r", "t", "_", "s", "h", "a", "r", "i", "n", "g">>,
     <<"m", "a", "x", "_", "c", "o", "n", "n">>,
     <<"s", "p", "l", "i", "t", "_", "t", "u", "n", "n", "e", "l">>,
     <<"a", "d", "d", "i", "t", "i", "o", "n", "a", "l", "_", "c", "i", "d", "r", "s">>,
     <<"n", "a", "m", "e", "s", "e", "r", "v", "e", "r", "s">>,
     <<"s", "e", "a", "r", "c", "h", "_", "d", "o", "m", "a", "i", "n", "s">>,
     <<"e", "n", "a", "b", "l", "e", "_", "p", "b", "r">>,
     <<"p", "b", "r", "_", "s", "u", "b", "n", "e", "t">>,
     <<"p", "b", "r", "_", "d", "e", "f", "a", "u", "l", "t", "_", "g", "a", "t", "e", "w", "a", "y">>,
     <<"p", "b", "r", "_", "l", "o", "g", "g", "i", "n", "g">>,
     <<"e", "n", "a", "b", "l", "e", "_", "l", "d", "a", "p">>,
     <<"l", "d", "a", "p", "_", "s", "e", "r", "v", "e", "r">>,
     <<"l", "d", "a", "p", "_", "b", "i", "n", "d", "_", "d", "n">>,
     <<"l", "d", "a", "p", "_", "p", "a", "s", "s", "w", "o", "r", "d">>,
     <<"l", "d", "a", "p", "_", "b", "a", "s", "e", "_", "d", "n">>,
     <<"l", "d", "a", "p", "_", "u", "s", "e", "r", "_", "a", "t", "t", "r">>,
     <<"l", "d", "a", "p", "_", "a", "d", "d", "i", "t", "i", "o", "n", "a", "l", "_", "r", "e", "q">>,
     <<"l", "d", "a", "p", "_", "u", "s", "e", "_", "s", "s", "l">>,
     <<"l", "d", "a", "p", "_", "c", "l", "i", "e", "n", "t", "_", "c", "e", "r", "t">>,
     <<"l", "d", "a", "p", "_", "c", "a", "_", "c", "e", "r", "t">>,
     <<"s", "a", "v", "e", "_", "t", "e", "m", "p", "l", "a", "t", "e">>,
     <<"a", "l", "l", "o", "c", "a", "t", "e", "_", "n", "e", "w", "_", "e", "i", "p">>}

\* CREATE_SPOKE_GW_ALLOWED, lines 313-314
CREATE_SPOKE_GW_ALLOWED ==
    {<<"a", "c", "c", "o", "u", "n", "t", "_", "n", "a", "m", "e">>,
     <<"c", "l", "o", "u", "d", "_", "t", "y", "p", "e">>,
     <<"r", "e", "g", "i", "o", "n">>,
     <<"v", "p", "c", "_", "i", "d">>,
     <<"p", "u", "b", "l", "i", "c", "_", "s", "u", "b", "n", "e", "t">>,
     <<"g", "w", "_", "n", "a", "m", "e">>,
     <<"g", "w", "_", "s", "i", "z", "e">>,
     <<"d", "n", "s", "_", "s", "e", "r", "v", "e", "r">>,
     <<"n", "a", "t", "_", "e", "n", "a", "b", "l", "e", "d">>,
     <<"t", "a", "g", "s">>}

\* the pieces of the URL, line 109
URLPart ==
    [https |-> <<"h", "t", "t", "p", "s", ":", "/", "/">>,
     v1 |-> <<"/", "v", "1", "/">>,
     api |-> <<"a", "p", "i">>,
     backend1 |-> <<"b", "a", "c", "k", "e", "n", "d", "1">>]

s_show_controller_ip ==
    <<"s", "h", "o", "w", "_", "c", "o", "n", "t", "r", "o", "l", "l", "e", "r",
      "_", "i", "p">>

(***************************************************************************)
(* Inputs: arguments of the calls and responses of the controller          *)
(***************************************************************************)
\* number of distinct session tokens the controller hands out
MaxTokens == 2

Token(i) == <<"t", Digits[i + 1]>>

Quoted(cs) == <<"\"">> \o cs \o <<"\"">>

Member(k, text) == Quoted(k) \o <<":">> \o text

RECURSIVE JoinMembers(_)
JoinMembers(ms) ==
    IF Len(ms) = 0 THEN <<>>
    ELSE IF Len(ms) = 1 THEN ms[1]
    ELSE ms[1] \o <<",">> \o JoinMembers(Tail(ms))

Object(ms) == <<"{">> \o JoinMembers(ms) \o <<"}">>

s_true == <<"t", "r", "u", "e">>

s_false == <<"f", "a", "l", "s", "e">>

s_bad_creds == <<"b", "a", "d", " ", "c", "r", "e", "d", "s">>

s_ok == <<"o", "k">>

s_pong == <<"p", "o", "n", "g">>

\* A JSON object in which return (absent, true or false), reason, results
\* and CID (0: absent, i: Token(i)) are independently present or absent.
Envelope(ret, hasReason, hasResults, cid) ==
    Object((IF ret = "absent" THEN <<>>
            ELSE <<Member(s_return, IF ret = "true" THEN s_true ELSE s_false)>>)
           \o (IF hasReason THEN <<Member(s_reason, Quoted(s_bad_creds))>>
               ELSE <<>>)
           \o (IF hasResults THEN <<Member(s_results, Quoted(s_ok))>> ELSE <<>>)
           \o (IF cid = 0 THEN <<>> ELSE <<Member(s_CID, Quoted(Token(cid)))>>))

EnvelopeBodies ==
    {Envelope(ret, hasReason, hasResults, 0) :
        ret \in {"absent", "true", "false"}, hasReason \in BOOLEAN,
        hasResults \in BOOLEAN}

\* {"return":true,"results":"ok","CID":t} for every token t, and
\* {"CID":"t1"}, {"return":false,"reason":"bad creds","CID":"t1"},
\* {"return":true,"CID":"t1"}
CIDBodies ==
    {Envelope("true", FALSE, TRUE, cid) : cid \in 1..MaxTokens}
        \cup {Envelope("absent", FALSE, FALSE, 1),
              Envelope("false", TRUE, FALSE, 1),
              Envelope("true", FALSE, FALSE, 1)}

\* {"return":true,"results":{"CID":"t1"}}
NestedCIDBody ==
    Object(<<Member(s_return, s_true),
             Member(s_results, Object(<<Member(s_CID, Quoted(Token(1)))>>))>>)

\* {"return":true,"results":{"public_ip":"1"}}
PublicIPBody ==
    Object(<<Member(s_return, s_true),
             Member(s_results, Object(<<Member(s_public_ip, Quoted(<<"1">>))>>))>>)

\* { "return": 1, "results": [7, "ok"], "CID": "t1" } with blanks
LooseBody ==
    <<"{", " ">> \o Member(s_return, <<" ", "1">>) \o <<",", " ">>
        \o Member(s_results, <<" ", "[", "7", ",", " ">> \o Quoted(s_ok) \o <<"]">>)
        \o <<",", "\n">> \o Member(s_CID, <<" ">> \o Quoted(Token(1))) \o <<" ", "}">>

OtherBodies ==
    {s_Error \o <<" ">> \o s_pong,      \* Error: pong
     s_pong,                            \* pong
     Quoted(s_pong),                    \* "pong"
     <<"5">>,                           \* 5
     <<>>,                              \* empty body
     NestedCIDBody, PublicIPBody, LooseBody}

Bodies == EnvelopeBodies \cup CIDBodies \cup OtherBodies

\* Successes whose results is a list or holds one.  gateways: results of
\* list_vpcs_summary with the gateways ab, a, b, a; none: no gateway;
\* nameless: a list whose first record has no vpc_name; pairs:
\* {"return":true,"results":{"pair_list":["p"]}}
ListBodies ==
    LET Array(items) == <<"[">> \o JoinMembers(items) \o <<"]">>
        \* {"return":true,"results":<text>}
        ResultsBody(text) ==
            Object(<<Member(s_return, s_true), Member(s_results, text)>>)
        \* {"vpc_name":"<name>","id":<id>}
        GatewayRecord(name, id) ==
            Object(<<Member(Key.vpc_name, Quoted(name)), Member(Key.id, id)>>)
    IN  [gateways |->
             ResultsBody(Array(<<GatewayRecord(<<"a", "b">>, <<"0">>),
                                 GatewayRecord(<<"a">>, <<"1">>),
                                 GatewayRecord(<<"b">>, <<"2">>),
                                 GatewayRecord(<<"a">>, <<"3">>)>>)),
         none |-> ResultsBody(Array(<<>>)),
         nameless |->
             ResultsBody(Array(<<Object(<<Member(Key.id, <<"1">>)>>),
                                 GatewayRecord(<<"a">>, <<"2">>)>>)),
         pairs |->
             ResultsBody(Object(<<Member(Key.pair_list,
                                         Array(<<Quoted(<<"p">>)>>))>>))]

\* the bodies tried on the wrappers that differ in how they build their
\* parameters: a success and a failure envelope
FewBodies ==
    {Envelope("true", FALSE, TRUE, 0), Envelope("false", TRUE, FALSE, 0)}

AllBodies == Bodies \cup {ListBodies[name] : name \in DOMAIN ListBodies}

\* urlopen either raises URLError or yields the bytes of one of the bodies
Answering(bodies) ==
    {[kind |-> "URLError", body |-> PyBytes(<<>>)]}
        \cup {[kind |-> "body", body |-> PyBytes(b)] : b \in bodies}

Responses == Answering(Bodies)

NoResponse == [kind |-> "none", body |-> PyBytes(<<>>)]

\* The environment answers a call only if the call sends a request
Answers(sends) == IF sends THEN Responses ELSE {NoResponse}

\* the address of the controller in the sessions that make calls
Host == PyStr(<<"h">>)

\* longest controller address tried on the constructor
MaxAddrLen == 3

AddrChars == {"h", ".", "0", " "}

\* arguments of the constructor: None and every text up to MaxAddrLen
Addresses ==
    {PyNone} \cup {PyStr(cs) : cs \in UNION {[1..n -> AddrChars] : n \in 0..MaxAddrLen}}

\* Keyword arguments of the gateway-creation wrappers, in call order.
\* mixed: enable_nat is allowed by create_gateway only, dns_server by
\* create_spoke_gateway only, foo by neither; renamed: keys that are no
\* parameter name of create_gateway but name parameters it transmits;
\* reserved: the keys the pipeline sets itself.
Kwargs ==
    [none |-> <<>>,
     mixed |-> <<<<Key.enable_nat, PyStr(s_yes)>>,
                 <<Key.dns_server, PyStr(<<"d">>)>>,
                 <<<<"f", "o", "o">>, PyStr(<<"x">>)>>>>,
     renamed |-> <<<<Key.account_name, PyStr(<<"b">>)>>,
                   <<Key.vpc_reg, PyStr(<<"q">>)>>>>,
     reserved |-> <<<<s_action, PyStr(<<"x">>)>>, <<s_CID, PyStr(<<"x">>)>>>>]

Usernames == {PyStr(<<>>), PyStr(<<"u">>)}

Passwords == {PyNone, PyStr(<<"p">>)}

Emails == {PyStr(<<"e", "@", "x">>)}

\* verbs of a direct pipeline call: one it accepts and one it rejects (the
\* wrappers cover GET)
Methods == {"POST", "PUT"}

\* longest list of members given to set_fw_tag_members
MaxMembers == 2

\* The lists of members: any list, up to MaxMembers long, of the members
\* {'name': 'a', 'cidr': '1'} and {'name': 'b', 'cidr': '2'}, and a list
\* whose second member has no cidr
Members ==
    {PyList(ms) :
        ms \in UNION {[1..n -> {PyDict((Key.name :> PyStr(<<"a">>))
                                         @@ (Key.cidr :> PyStr(<<"1">>))),
                                 PyDict((Key.name :> PyStr(<<"b">>))
                                         @@ (Key.cidr :> PyStr(<<"2">>)))}] :
                        n \in 0..MaxMembers}}
        \cup {PyList(<<PyDict((Key.name :> PyStr(<<"a">>))
                                @@ (Key.cidr :> PyStr(<<"1">>))),
                        PyDict(Key.name :> PyStr(<<"b">>))>>)}

\* longest value of the caller's dictionary
MaxTextLen == 2

\* The dictionaries a caller passes to the pipeline itself: one key whose
\* value is any text of blanks, separators and an ordinary letter; two keys;
\* the keys the pipeline sets itself; none.
Mappings ==
    LET SpecialChars == {"a", " ", "&", "/", "=", "%", "+"}
    IN  {<<<<<<"k">>, PyStr(v)>>>> :
            v \in UNION {[1..n -> SpecialChars] : n \in 0..MaxTextLen}}
          \cup {<<<<<<"k">>, PyStr(<<"&", "q", "=">>)>>,
                  <<<<"q">>, PyStr(<<" ">>)>>>>,
                <<<<s_action, PyStr(<<"x">>)>>, <<s_CID, PyStr(<<"x">>)>>,
                  <<<<"k">>, PyStr(<<"/">>)>>>>,
                <<>>}

\* Lines 840-841: 'new_policies[%d][name]' % (current), and the same for cidr
PolicyKey_oneBased(current, field) ==
    Key.new_policies \o <<"[">> \o DecimalDigits(current + 1) \o <<"]", "[">>
        \o field \o <<"]">>

PolicyKey(current, field) ==
    Key.new_policies \o <<"[">> \o DecimalDigits(current) \o <<"]", "[">>
        \o field \o <<"]">>

\* Every text the modelled calls hand to urlencode as a key or a value
Texts ==
    {s_action, s_CID, s_username, s_password, s_admin_email, s_public, s_yes,
     s_login, s_add_admin_email_addr, s_list_vpn_users, s_show_controller_ip,
     s_true, s_false, <<>>, <<"0">>, <<"1">>, <<"2">>, <<"a">>, <<"g">>,
     <<"v">>, <<"r">>, <<"s">>, <<"n">>, <<"l">>, <<"p">>, <<"b">>,
     <<"g", ",", "k">>}
        \cup {Key[name] : name \in DOMAIN Key}
        \cup {ActionName[name] : name \in DOMAIN ActionName}
        \cup {Token(i) : i \in 1..MaxTokens}
        \cup {str(x) : x \in Usernames \cup Passwords \cup Emails}
        \cup UNION {{Kwargs[name][i][1] : i \in DOMAIN Kwargs[name]}
                       \cup {str(Kwargs[name][i][2]) :
                               i \in DOMAIN Kwargs[name]} :
                     name \in DOMAIN Kwargs}
        \cup UNION {{items[i][1] : i \in DOMAIN items}
                       \cup {str(items[i][2]) : i \in DOMAIN items} :
                     items \in Mappings}
        \cup {PolicyKey(current, field) :
                 current \in 0..(MaxMembers - 1),
                 field \in {Key.name, Key.cidr}}

\* quote_via of urlencode is quote_plus; the quoting of every text is
\* computed once and looked up afterwards.
Quoting == [cs \in Texts |-> quote_plus(cs)]

quote_via(cs) == IF cs \in DOMAIN Quoting THEN Quoting[cs] ELSE quote_plus(cs)

\* urlencode(query): key=value of every item in dictionary order, joined by &
RECURSIVE urlencode(_)
urlencode(items) ==
    IF items = <<>> THEN <<>>
    ELSE quote_via(str(PyStr(items[1][1]))) \o <<"=">>
             \o quote_via(str(items[1][2]))
             \o (IF Len(items) = 1 THEN <<>>
                 ELSE <<"&">> \o urlencode(Tail(items)))

\* json.loads(x); the decoding of every body the controller can send is
\* computed once and looked up afterwards.
Decoded == [b \in AllBodies |-> json_decode(PyBytes(b))]

json_loads(x) == Decoded[x.v]

(***************************************************************************)
(* The session object and the call pipeline                                *)
(***************************************************************************)
VARIABLES
    controller_ip,  \* self.controller_ip
    customer_id,    \* self.customer_id, the session token
    results,        \* self.results
    result,         \* self.result
    call,           \* observation: the last completed public call
    login_cid,      \* history: CID of the last login that returned normally
    caller_dict,    \* the caller's dictionary that direct pipeline calls pass
    callers         \* the callers whose calls overlap: where each one is

vars ==
    <<controller_ip, customer_id, results, result, call, login_cid,
      caller_dict, callers>>

Raised(e) == e.type # "none"

\* The Aviatrix object as the methods see it
Self == [controller_ip |-> controller_ip, customer_id |-> customer_id,
         results |-> results, result |-> result]

\* No Aviatrix object: the fields before any construction succeeded
NoSession == [controller_ip |-> PyNone, customer_id |-> PyNone,
              results |-> PyNone, result |-> PyNone]

\* Aviatrix(controller_ip): lines 85-90 of __init__.  Yields the exception
\* raised, or the fields of the new object.
Aviatrix_acceptAny(address) ==
    [exc |-> NoExc,
     self |-> [controller_ip |-> address, customer_id |-> PyStr(<<>>),
               results |-> PyList(<<>>), result |-> PyNone]]

Aviatrix(address) ==
    IF ~Truthy(address)
    THEN [exc |-> Exc("ValueError", "Aviatrix Controller IP is required",
                      PyNone),
          self |-> NoSession]
    ELSE [exc |-> NoExc,
          self |-> [controller_ip |-> address, customer_id |-> PyStr(<<>>),
                    results |-> PyList(<<>>), result |-> PyNone]]

\* What a method leaves behind: the object's fields, the requests it handed
\* to urlopen, the exception it raised (if any) and the value it returned.
Done(self, sent, exc, ret) ==
    [customer_id |-> self.customer_id, results |-> self.results,
     result |-> self.result, sent |-> sent, exc |-> exc, ret |-> ret]

\* Lines 132-133: the response says return is false.  Clears results and
\* raises RESTException(reason), or KeyError when there is no reason.
ReturnFalse_keep(self) ==
    LET reason == GetItem(self.result, s_reason)
    IN  IF Raised(reason.exc) THEN [self |-> self, exc |-> reason.exc]
        ELSE [self |-> self,
              exc |-> Exc("RESTException", "Aviatrix REST API: {}", reason.val)]

ReturnFalse_logout(self) ==
    LET s2 == [self EXCEPT !.results = PyNone, !.customer_id = PyStr(<<>>)]
        reason == GetItem(self.result, s_reason)
    IN  IF Raised(reason.exc) THEN [self |-> s2, exc |-> reason.exc]
        ELSE [self |-> s2,
              exc |-> Exc("RESTException", "Aviatrix REST API: {}", reason.val)]

ReturnFalse(self) ==
    LET s2 == [self EXCEPT !.results = PyNone]
        reason == GetItem(self.result, s_reason)
    IN  IF Raised(reason.exc) THEN [self |-> s2, exc |-> reason.exc]
        ELSE [self |-> s2,
              exc |-> Exc("RESTException", "Aviatrix REST API: {}", reason.val)]

\* Line 135: the response says return is true
ReturnTrue_adoptCID(self) ==
    LET res == GetItem(self.result, s_results)
        cid == GetItem(self.result, s_CID)
    IN  IF Raised(res.exc) THEN [self |-> self, exc |-> res.exc]
        ELSE [self |-> [self EXCEPT !.results = res.val,
                                    !.customer_id = IF Raised(cid.exc) THEN @
                                                    ELSE cid.val],
              exc |-> NoExc]

ReturnTrue_keepStale(self) ==
    LET res == GetItem(self.result, s_results)
    IN  IF Raised(res.exc) THEN [self |-> self, exc |-> NoExc]
        ELSE [self |-> [self EXCEPT !.results = res.val], exc |-> NoExc]

ReturnTrue(self) ==
    LET res == GetItem(self.result, s_results)
    IN  IF Raised(res.exc) THEN [self |-> self, exc |-> res.exc]
        ELSE [self |-> [self EXCEPT !.results = res.val], exc |-> NoExc]

\* Lines 130-137: unwrap the decoded response held in self.result
Unwrap(self) ==
    LET has == Contains(self.result, s_return)
        ret == GetItem(self.result, s_return)
    IN  IF Raised(has.exc) THEN [self |-> self, exc |-> has.exc]
        ELSE IF ~has.val
        THEN [self |-> [self EXCEPT !.results = self.result], exc |-> NoExc]
        ELSE IF Raised(ret.exc) THEN [self |-> self, exc |-> ret.exc]
        ELSE IF ~Truthy(ret.val) THEN ReturnFalse(self)
        ELSE ReturnTrue(self)

\* Lines 129-137 after json.loads yielded d: its exception leaves the try
\* block, or its value is stored in self.result and unwrapped.
Decoded_Unwrap(self, d) ==
    IF Raised(d.exc) THEN [self |-> self, exc |-> d.exc]
    ELSE Unwrap([self EXCEPT !.result = d.val])

\* Lines 128-137: the body of the try block, given the response text.
\* Yields the fields written so far and the exception that left the block.
DecodeAndUnwrap(self, json_response) ==
    Decoded_Unwrap(self, json_loads(json_response))

\* Lines 138-142: the handler of the try block, entered on a ValueError
ExceptValueError(try, req, json_response) ==
    IF IsValueError(try.exc)
    THEN IF try.exc.msg = "No JSON object could be decoded"
         THEN Done([try.self EXCEPT !.results = json_response], <<req>>,
                   NoExc, PyNone)
         ELSE Done(try.self, <<req>>, try.exc, PyNone)
    ELSE Done(try.self, <<req>>, try.exc, PyNone)

\* Lines 126-142: what is done with the text read from the response
Interpret(self, req, json_response) ==
    IF PyEq(Slice(json_response, 0, 6), PyStr(s_Error))
    THEN Done(self, <<req>>, Exc("ValueError", "", json_response), PyNone)
    ELSE ExceptValueError(DecodeAndUnwrap(self, json_response), req,
                          json_response)

\* Lines 122-142: urlopen(req) raises URLError or the body is read
Send_retry(self, req, response) ==
    IF response.kind = "URLError"
    THEN Done(self, <<req, req>>, Exc("URLError", "", PyNone), PyNone)
    ELSE Interpret(self, req, response.body)

Send_swallow(self, req, response) ==
    IF response.kind = "URLError"
    THEN Done([self EXCEPT !.results = PyNone], <<req>>, NoExc, PyNone)
    ELSE Interpret(self, req, response.body)

Send(self, req, response) ==
    IF response.kind = "URLError"
    THEN Done(self, <<req>>, Exc("URLError", "", PyNone), PyNone)
    ELSE Interpret(self, req, response.body)

\* Line 109: the URL of the base path
BaseURL(self, is_backend) ==
    URLPart.https \o str(self.controller_ip) \o URLPart.v1
        \o (IF ~is_backend THEN URLPart.api ELSE URLPart.backend1)

\* Lines 110-112: a copy of the parameters with action and CID set
new_parameters_noCIDOnLogin(self, action, parameters) ==
    IF action = s_login THEN SetItem(parameters, s_action, PyStr(action))
    ELSE SetItem(SetItem(parameters, s_action, PyStr(action)), s_CID,
                 self.customer_id)

new_parameters_actionOnly(self, action, parameters) ==
    SetItem(parameters, s_action, PyStr(action))

new_parameters(self, action, parameters) ==
    SetItem(SetItem(parameters, s_action, PyStr(action)), s_CID,
            self.customer_id)

\* Line 110: new_parameters = dict(parameters) is a new dictionary, so lines
\* 111-112 leave the dictionary of the caller as it was
CallerParameters_aliased(self, action, params) ==
    new_parameters(self, action, params)

CallerParameters(self, action, params) == params

\* Lines 114-119: urllib.request.Request(url) for GET, Request(url, data) for
\* POST, as urlopen receives it; params is the dictionary that was encoded.
BuildRequest_queryAlways(method, host, is_backend, url, params, data) ==
    [method |-> method,
     host |-> host,
     path |-> IF ~is_backend THEN "/v1/api" ELSE "/v1/backend1",
     params |-> params,
     url |-> url \o <<"?">> \o data,
     data |-> IF method = "GET" THEN PyNone ELSE PyBytes(data)]

BuildRequest(method, host, is_backend, url, params, data) ==
    [method |-> method,
     host |-> host,
     path |-> IF ~is_backend THEN "/v1/api" ELSE "/v1/backend1",
     params |-> params,
     url |-> IF method = "GET" THEN url \o <<"?">> \o data ELSE url,
     data |-> IF method = "GET" THEN PyNone ELSE PyBytes(data)]

\* Lines 109-119 once new_parameters is built
EncodeRequest(self, method, is_backend, items) ==
    BuildRequest(method, self.controller_ip, is_backend,
                 BaseURL(self, is_backend), AsMap(items), urlencode(items))

\* The request object built on lines 109-121
Request(self, method, action, parameters, is_backend) ==
    EncodeRequest(self, method, is_backend,
                  new_parameters(self, action, parameters))

\* _avx_api_call(method, action, parameters, is_backend), with the outcome
\* of urlopen given as response: a URLError or the bytes read.
avx_api_call_sendAnyVerb(self, method, action, parameters, is_backend, response) ==
    IF method \notin {"GET", "POST"}
    THEN Done(self, <<Request(self, method, action, parameters, is_backend)>>,
              Exc("ValueError", "Invalid method {}", PyNone), PyNone)
    ELSE Send(self, Request(self, method, action, parameters, is_backend),
              response)

avx_api_call_clearFirst(self, method, action, parameters, is_backend, response) ==
    IF method \notin {"GET", "POST"}
    THEN Done([self EXCEPT !.results = PyNone], <<>>,
              Exc("ValueError", "Invalid method {}", PyNone), PyNone)
    ELSE Send([self EXCEPT !.results = PyNone],
              Request(self, method, action, parameters, is_backend), response)

avx_api_call(self, method, action, parameters, is_backend, response) ==
    IF method \notin {"GET", "POST"}
    THEN Done(self, <<>>, Exc("ValueError", "Invalid method {}", PyNone),
              PyNone)
    ELSE Send(self, Request(self, method, action, parameters, is_backend),
              response)

\* Lines 157-161: after the pipeline left d behind, take the token
StoreToken_nested(d) ==
    LET ret == GetItem(d.result, s_return)
        res == GetItem(d.result, s_results)
        cid == IF Raised(res.exc) THEN res ELSE GetItem(res.val, s_CID)
        exc == IF Raised(ret.exc) THEN ret.exc
               ELSE IF Truthy(ret.val) THEN cid.exc
               ELSE NoExc
    IN  IF Raised(d.exc) THEN d
        ELSE [d EXCEPT
                !.customer_id = IF ~Raised(ret.exc) /\ Truthy(ret.val)
                                     /\ ~Raised(cid.exc)
                                THEN cid.val ELSE @,
                !.exc = IF exc.type = "AttributeError" THEN NoExc ELSE exc]

StoreToken(d) ==
    LET ret == GetItem(d.result, s_return)
        cid == GetItem(d.result, s_CID)
        exc == IF Raised(ret.exc) THEN ret.exc
               ELSE IF Truthy(ret.val) THEN cid.exc
               ELSE NoExc
    IN  IF Raised(d.exc) THEN d
        ELSE [d EXCEPT
                !.customer_id = IF ~Raised(ret.exc) /\ Truthy(ret.val)
                                     /\ ~Raised(cid.exc)
                                THEN cid.val ELSE @,
                !.exc = IF exc.type = "AttributeError" THEN NoExc ELSE exc]

LoginParameters(username, password) ==
    <<<<s_username, username>>, <<s_password, password>>>>

login_reset(self, username, password, response) ==
    IF ~Truthy(username) \/ ~Truthy(password)
    THEN Done(self, <<>>,
              Exc("ValueError", "Username and password are required", PyNone),
              PyNone)
    ELSE StoreToken(avx_api_call([self EXCEPT !.customer_id = PyStr(<<>>)],
                                 "GET", s_login,
                                 LoginParameters(username, password), FALSE,
                                 response))

login_absorb(self, username, password, response) ==
    IF ~Truthy(username) \/ ~Truthy(password)
    THEN Done(self, <<>>,
              Exc("ValueError", "Username and password are required", PyNone),
              PyNone)
    ELSE StoreToken([avx_api_call(self, "GET", s_login,
                                  LoginParameters(username, password),
                                  FALSE, response) EXCEPT !.exc = NoExc])

login_onlyUsername(self, username, password, response) ==
    IF ~Truthy(username)
    THEN Done(self, <<>>,
              Exc("ValueError", "Username and password are required", PyNone),
              PyNone)
    ELSE StoreToken(avx_api_call(self, "GET", s_login,
                                 LoginParameters(username, password), FALSE,
                                 response))

login(self, username, password, response) ==
    IF ~Truthy(username) \/ ~Truthy(password)
    THEN Done(self, <<>>,
              Exc("ValueError", "Username and password are required", PyNone),
              PyNone)
    ELSE StoreToken(avx_api_call(self, "GET", s_login,
                                 LoginParameters(username, password), FALSE,
                                 response))

admin_email(self, email, response) ==
    avx_api_call(self, "GET", s_add_admin_email_addr,
                 <<<<s_admin_email, email>>>>, FALSE, response)

\* return self.results[key], once the pipeline left d behind
ReturnResultsItem(d, key) ==
    LET item == GetItem(d.results, key)
    IN  IF Raised(d.exc) THEN d
        ELSE [d EXCEPT !.exc = item.exc, !.ret = item.val]

\* return self.results, once the pipeline left d behind
ReturnResults(d) == IF Raised(d.exc) THEN d ELSE [d EXCEPT !.ret = d.results]

get_controller_public_ip(self, response) ==
    ReturnResultsItem(avx_api_call(self, "POST", s_show_controller_ip,
                                   <<<<s_public, PyStr(s_yes)>>>>, TRUE,
                                   response),
                      s_public_ip)

list_vpn_users(self, response) ==
    ReturnResults(avx_api_call(self, "GET", s_list_vpn_users, <<>>, FALSE,
                               response))

\* `key in Aviatrix.CREATE_GW_ALLOWED` (line 309) and
\* `key in Aviatrix.CREATE_SPOKE_GW_ALLOWED` (line 344)
KeyAllowed_any(key, allowed) == TRUE

KeyAllowed(key, allowed) == key \in allowed

\* Lines 308-310 and 343-345: params[key] = value for the keyword arguments,
\* in the order given, whose key is allowed
RECURSIVE CopyAllowed(_, _, _)
CopyAllowed(params, kwargs, allowed) ==
    IF kwargs = <<>> THEN params
    ELSE CopyAllowed(IF KeyAllowed(kwargs[1][1], allowed)
                     THEN SetItem(params, kwargs[1][1], kwargs[1][2])
                     ELSE params,
                     Tail(kwargs), allowed)

create_gateway(self, account, cloud_type, gw_name, vpc_id, vpc_region, vpc_size, vpc_net, kwargs, response) ==
    avx_api_call(self, "POST", ActionName.connect_container,
                 CopyAllowed(<<<<Key.account_name, account>>,
                               <<Key.cloud_type, cloud_type>>,
                               <<Key.gw_name, gw_name>>,
                               <<Key.vpc_id, vpc_id>>,
                               <<Key.vpc_reg, vpc_region>>,
                               <<Key.vpc_size, vpc_size>>,
                               <<Key.vpc_net, vpc_net>>>>,
                             kwargs, CREATE_GW_ALLOWED),
                 FALSE, response)

create_spoke_gateway(self, account_name, cloud_type, region, vpc_id, public_subnet, gw_name, gw_size, kwargs, response) ==
    avx_api_call(self, "POST", ActionName.create_spoke_gw,
                 CopyAllowed(<<<<Key.account_name, account_name>>,
                               <<Key.cloud_type, cloud_type>>,
                               <<Key.region, region>>,
                               <<Key.vpc_id, vpc_id>>,
                               <<Key.public_subnet, public_subnet>>,
                               <<Key.gw_name, gw_name>>,
                               <<Key.gw_size, gw_size>>>>,
                             kwargs, CREATE_SPOKE_GW_ALLOWED),
                 FALSE, response)

list_peers_wholeResults(self, response) ==
    ReturnResults(avx_api_call(self, "GET", ActionName.list_peer_vpc_pairs,
                               <<>>, FALSE, response))

list_peers(self, response) ==
    ReturnResultsItem(avx_api_call(self, "GET", ActionName.list_peer_vpc_pairs, <<>>,
                                   FALSE, response),
                      Key.pair_list)

list_peers_vpc_pairs(self, response) == list_peers(self, response)

list_gateways(self, account_name, response) ==
    ReturnResults(avx_api_call(self, "GET", ActionName.list_vpcs_summary,
                               <<<<Key.account_name, account_name>>>>, FALSE,
                               response))

\* Lines 456-460: the first gwy of gws with gwy['vpc_name'] == gw_name, None
\* when the loop ends, or the exception gwy['vpc_name'] raised on the way
RECURSIVE FirstMatch_last(_, _)
FirstMatch_last(gws, gw_name) ==
    IF gws = <<>> THEN [exc |-> NoExc, val |-> PyNone]
    ELSE IF Raised(GetItem(gws[Len(gws)], Key.vpc_name).exc)
    THEN GetItem(gws[Len(gws)], Key.vpc_name)
    ELSE IF PyEq(GetItem(gws[Len(gws)], Key.vpc_name).val, gw_name)
    THEN [exc |-> NoExc, val |-> gws[Len(gws)]]
    ELSE FirstMatch_last(SubSeq(gws, 1, Len(gws) - 1), gw_name)

RECURSIVE FirstMatch(_, _)
FirstMatch(gws, gw_name) ==
    IF gws = <<>> THEN [exc |-> NoExc, val |-> PyNone]
    ELSE IF Raised(GetItem(gws[1], Key.vpc_name).exc)
    THEN GetItem(gws[1], Key.vpc_name)
    ELSE IF PyEq(GetItem(gws[1], Key.vpc_name).val, gw_name)
    THEN [exc |-> NoExc, val |-> gws[1]]
    ELSE FirstMatch(Tail(gws), gw_name)

\* Lines 453-460, once list_gateways left d behind with gws as d.ret.  A
\* truthy gws that is no list is a str or a dict, whose elements are str, or
\* a number: the loop raises TypeError on its first step.
get_gateway_by_name(self, account_name, gw_name, response) ==
    LET FindGateway(d) ==
            IF Raised(d.exc) THEN d
            ELSE IF ~Truthy(d.ret) THEN [d EXCEPT !.ret = PyNone]
            ELSE IF d.ret.t # "list"
            THEN [d EXCEPT !.exc = Exc("TypeError", "", PyNone),
                           !.ret = PyNone]
            ELSE [d EXCEPT !.exc = FirstMatch(d.ret.v, gw_name).exc,
                           !.ret = FirstMatch(d.ret.v, gw_name).val]
    IN  FindGateway(list_gateways(self, account_name, response))

attach_vpn_user(self, lb_name, vpc_id, username, user_email, profile_name, saml_endpoint, response) ==
    LET \* Lines 550-551: if user_email: params['user_email'] = user_email
        WithUserEmail(params) ==
            IF Truthy(user_email)
            THEN SetItem(params, Key.user_email, user_email)
            ELSE params
        \* Lines 552-554
        WithProfile(params) ==
            IF Truthy(profile_name)
            THEN SetItem(SetItem(params, Key.use_profile, PyStr(s_true)),
                         Key.profile_name, profile_name)
            ELSE params
        \* Lines 555-556
        WithSamlEndpoint(params) ==
            IF Truthy(saml_endpoint)
            THEN SetItem(params, Key.saml_endpoint, saml_endpoint)
            ELSE params
    IN  avx_api_call(self, "POST", ActionName.attach_vpn_user,
                     WithSamlEndpoint(
                         WithProfile(
                             WithUserEmail(
                                 <<<<Key.lb_name, lb_name>>,
                                   <<Key.vpc_id_or_dns_name, vpc_id>>,
                                   <<s_username, username>>,
                                   <<Key.dns, PyStr(s_false)>>,
                                   <<Key.external_user, PyStr(s_false)>>,
                                   <<Key.use_profile, PyStr(s_false)>>>>))),
                     FALSE, response)

\* Util.unix_time, lines 35-41: a datetime is always true; int() of the
\* seconds truncates towards zero
unix_time(date_to_convert) ==
    LET TruncDiv(a, b) == IF a >= 0 THEN a \div b ELSE -((-a) \div b)
    IN  IF date_to_convert.t # "datetime" /\ ~Truthy(date_to_convert)
        THEN PyInt(0)
        ELSE PyInt(TruncDiv(date_to_convert.v, 1000000))

get_gateway_statistic_over_time(self, gw_names, start, end, stat, response) ==
    LET \* ','.join(names)
        RECURSIVE join(_)
        join(names) ==
            IF names = <<>> THEN <<>>
            ELSE IF Len(names) = 1 THEN names[1].v
            ELSE names[1].v \o <<",">> \o join(Tail(names))
        \* Lines 612-615
        GwName == IF gw_names.t = "str" THEN gw_names
                  ELSE PyStr(join(gw_names.v))
    IN  ReturnResults(avx_api_call(self, "POST", ActionName.get_statistics,
                                   <<<<Key.start_time, unix_time(start)>>,
                                     <<Key.end_time, unix_time(end)>>,
                                     <<Key.ds_name, stat>>,
                                     <<Key.db_id, PyInt(0)>>,
                                     <<Key.gw_name, GwName>>>>,
                                   TRUE, response))

get_current_gateway_statistics(self, gw_name, response) ==
    ReturnResults(avx_api_call(self, "POST",
                               ActionName.show_packets_stat_for_gw,
                               <<<<Key.gw_name, gw_name>>>>, TRUE, response))

\* Lines 837-844.  A member without name or cidr raises KeyError inside the
\* loop, before any request is built.
set_fw_tag_members(self, tag_name, members, response) ==
    LET \* lines 839-842, from member number current + 1 on: the parameters,
        \* or the exception that ended the loop
        RECURSIVE Loop(_, _)
        Loop(params, current) ==
            IF current = Len(members.v) THEN [exc |-> NoExc, val |-> params]
            ELSE IF Raised(GetItem(members.v[current + 1], Key.name).exc)
            THEN [exc |-> GetItem(members.v[current + 1], Key.name).exc,
                  val |-> params]
            ELSE IF Raised(GetItem(members.v[current + 1], Key.cidr).exc)
            THEN [exc |-> GetItem(members.v[current + 1], Key.cidr).exc,
                  val |-> params]
            ELSE Loop(SetItem(SetItem(params,
                                      PolicyKey(current, Key.name),
                                      GetItem(members.v[current + 1],
                                              Key.name).val),
                              PolicyKey(current, Key.cidr),
                              GetItem(members.v[current + 1], Key.cidr).val),
                      current + 1)
        Call(params) ==
            IF Raised(params.exc) THEN Done(self, <<>>, params.exc, PyNone)
            ELSE avx_api_call(self, "POST", ActionName.update_policy_members,
                              params.val, FALSE, response)
    IN  Call(Loop(<<<<Key.tag_name, tag_name>>>>, 0))

(***************************************************************************)
(* The state machine: one action per public operation, each a whole call   *)
(***************************************************************************)
\* Two callers share the session; neither has called anything yet.  op,
\* response, exc and ret describe the call a caller is in or, when it is
\* idle, its last call; foreign is history: which values the caller has
\* taken that another caller's response had put into the session.
NoCallers ==
    [t \in {1, 2} |->
        [pc |-> "idle", op |-> "none", response |-> NoResponse, exc |-> NoExc,
         ret |-> PyNone, foreign |-> {}]]

\* The state after Aviatrix(Host)
Init ==
    /\ controller_ip = Aviatrix(Host).self.controller_ip
    /\ customer_id = Aviatrix(Host).self.customer_id
    /\ results = Aviatrix(Host).self.results
    /\ result = Aviatrix(Host).self.result
    /\ call = [op |-> "__init__", args |-> [controller_ip |-> Host],
               response |-> NoResponse, sent |-> <<>>, exc |-> NoExc,
               ret |-> PyNone]
    /\ login_cid = PyStr(<<>>)
    /\ caller_dict = <<>>
    /\ callers = NoCallers

\* The call op(args) consumed response r and left d behind
Commit(op, args, r, d) ==
    /\ customer_id' = d.customer_id
    /\ results' = d.results
    /\ result' = d.result
    /\ call' = [op |-> op, args |-> args,
                response |-> IF d.sent = <<>> THEN NoResponse ELSE r,
                sent |-> d.sent, exc |-> d.exc, ret |-> d.ret]
    /\ UNCHANGED <<controller_ip, caller_dict, callers>>

\* The top-level CID member of a response, as the controller sent it
ResponseCID(r) == GetItem(json_loads(r.body).val, s_CID).val

\* login, answered from the given responses when it sends its request
LoginAnswered(responses) ==
    \E username \in Usernames, password \in Passwords :
      \E r \in IF Truthy(username) /\ Truthy(password) THEN responses
               ELSE {NoResponse} :
        \E d \in {login(Self, username, password, r)} :
            /\ Commit("login", [username |-> username, password |-> password],
                      r, d)
            /\ login_cid' = IF Raised(d.exc) THEN login_cid ELSE ResponseCID(r)

Login == LoginAnswered(Responses)

AdminEmail ==
    \E email \in Emails, r \in Responses :
        \E d \in {admin_email(Self, email, r)} :
            /\ Commit("admin_email", [email |-> email], r, d)
            /\ UNCHANGED login_cid

\* get_controller_public_ip, answered from the given responses
GetControllerPublicIpAnswered(responses) ==
    \E r \in responses :
        \E d \in {get_controller_public_ip(Self, r)} :
            /\ Commit("get_controller_public_ip", <<>>, r, d)
            /\ UNCHANGED login_cid

GetControllerPublicIp == GetControllerPublicIpAnswered(Responses)

ListVpnUsers ==
    \E r \in Responses :
        \E d \in {list_vpn_users(Self, r)} :
            /\ Commit("list_vpn_users", <<>>, r, d)
            /\ UNCHANGED login_cid

\* a direct call of the pipeline, with any verb
ApiCall ==
    \E method \in Methods :
      \E r \in Answers(method \in {"GET", "POST"}) :
        \E d \in {avx_api_call(Self, method, s_list_vpn_users, <<>>, FALSE,
                               r)} :
            /\ Commit("_avx_api_call", [method |-> method], r, d)
            /\ UNCHANGED login_cid

Next ==
    \/ Login
    \/ AdminEmail
    \/ GetControllerPublicIp
    \/ ListVpnUsers
    \/ ApiCall

Spec == Init /\ [][Next]_vars

(***************************************************************************)
(* The wrappers that shape their parameters or their return value, called  *)
(* in a session that logs in at any time                                   *)
(***************************************************************************)
CreateGateway ==
    \E kwargs \in {Kwargs[name] : name \in DOMAIN Kwargs},
       r \in Answering(FewBodies) :
        \E d \in {create_gateway(Self, PyStr(<<"a">>), PyInt(1), PyStr(<<"g">>),
                                 PyStr(<<"v">>), PyStr(<<"r">>), PyStr(<<"s">>),
                                 PyStr(<<"n">>), kwargs, r)} :
            /\ Commit("create_gateway", [kwargs |-> kwargs], r, d)
            /\ UNCHANGED login_cid

CreateSpokeGateway ==
    \E kwargs \in {Kwargs.none, Kwargs.mixed, Kwargs.reserved},
       r \in Answering(FewBodies) :
        \E d \in {create_spoke_gateway(Self, PyStr(<<"a">>), PyInt(1),
                                       PyStr(<<"r">>), PyStr(<<"v">>),
                                       PyStr(<<"n">>), PyStr(<<"g">>),
                                       PyStr(<<"s">>), kwargs, r)} :
            /\ Commit("create_spoke_gateway", [kwargs |-> kwargs], r, d)
            /\ UNCHANGED login_cid

ListPeers ==
    \E r \in Answering(FewBodies \cup {ListBodies.pairs}) :
        \E d \in {list_peers(Self, r)} :
            /\ Commit("list_peers", <<>>, r, d)
            /\ UNCHANGED login_cid

ListPeersVpcPairs ==
    \E r \in Answering(FewBodies \cup {ListBodies.pairs}) :
        \E d \in {list_peers_vpc_pairs(Self, r)} :
            /\ Commit("list_peers_vpc_pairs", <<>>, r, d)
            /\ UNCHANGED login_cid

\* looks up a, b and c in the gateway lists, and in results that are no list
GetGatewayByName ==
    \E gw_name \in {PyStr(<<"a">>), PyStr(<<"b">>), PyStr(<<"c">>)},
       r \in Answering(FewBodies
                          \cup {ListBodies.gateways, ListBodies.none,
                                ListBodies.nameless, PublicIPBody}) :
        \E d \in {get_gateway_by_name(Self, PyStr(<<"a">>), gw_name, r)} :
            /\ Commit("get_gateway_by_name", [gw_name |-> gw_name], r, d)
            /\ UNCHANGED login_cid

AttachVpnUser ==
    \E user_email \in {PyNone, PyStr(<<"e", "@", "x">>)},
       profile_name \in {PyNone, PyStr(<<>>), PyStr(<<"p">>)},
       saml_endpoint \in {PyNone, PyStr(<<"s">>)}, r \in Answering(FewBodies) :
        \E d \in {attach_vpn_user(Self, PyStr(<<"l">>), PyStr(<<"v">>),
                                  PyStr(<<"u">>), user_email, profile_name,
                                  saml_endpoint, r)} :
            /\ Commit("attach_vpn_user",
                      [user_email |-> user_email,
                       profile_name |-> profile_name,
                       saml_endpoint |-> saml_endpoint], r, d)
            /\ UNCHANGED login_cid

\* one gateway name or a list of two; no start time or 1.5 s after the
\* epoch; the end time is 2 s after the epoch
GetGatewayStatisticOverTime ==
    \E gw_names \in {PyStr(<<"g">>), PyList(<<PyStr(<<"g">>), PyStr(<<"k">>)>>)},
       start \in {PyNone, PyDatetime(1500000)}, r \in Answering(FewBodies) :
        \E d \in {get_gateway_statistic_over_time(Self, gw_names, start,
                                                  PyDatetime(2000000),
                                                  PyStr(Key.rate_total), r)} :
            /\ Commit("get_gateway_statistic_over_time",
                      [gw_names |-> gw_names, start |-> start], r, d)
            /\ UNCHANGED login_cid

SetFwTagMembers ==
    \E members \in Members, r \in Answering(FewBodies) :
        \E d \in {set_fw_tag_members(Self, PyStr(<<"g">>), members, r)} :
            /\ Commit("set_fw_tag_members", [members |-> members], r, d)
            /\ UNCHANGED login_cid

GetCurrentGatewayStatistics ==
    \E r \in Answering(FewBodies) :
        \E d \in {get_current_gateway_statistics(Self, PyStr(<<"g">>), r)} :
            /\ Commit("get_current_gateway_statistics", <<>>, r, d)
            /\ UNCHANGED login_cid

\* login is answered by a transport failure, a failure, a plain success and
\* a success that carries each token
NextWrappers ==
    \/ LoginAnswered(Answering(FewBodies
                                \cup {Envelope("true", FALSE, TRUE, cid) :
                                         cid \in 1..MaxTokens}))
    \/ CreateGateway
    \/ CreateSpokeGateway
    \/ ListPeers
    \/ ListPeersVpcPairs
    \/ GetGatewayByName
    \/ AttachVpnUser
    \/ GetGatewayStatisticOverTime
    \/ GetCurrentGatewayStatistics
    \/ SetFwTagMembers
    \/ GetControllerPublicIpAnswered(Answering(FewBodies \cup {PublicIPBody}))

SpecWrappers == Init /\ [][NextWrappers]_vars

(***************************************************************************)
(* Direct calls of the pipeline with a dictionary of the caller, which the *)
(* caller keeps and passes again                                           *)
(***************************************************************************)
InitPipeline ==
    /\ controller_ip = Aviatrix(Host).self.controller_ip
    /\ customer_id = Aviatrix(Host).self.customer_id
    /\ results = Aviatrix(Host).self.results
    /\ result = Aviatrix(Host).self.result
    /\ call = [op |-> "__init__", args |-> [controller_ip |-> Host],
               response |-> NoResponse, sent |-> <<>>, exc |-> NoExc,
               ret |-> PyNone]
    /\ login_cid = PyStr(<<>>)
    /\ caller_dict \in Mappings
    /\ callers = NoCallers

\* _avx_api_call(method, 'list_vpn_users', caller_dict) with any verb
PipelineCall ==
    \E method \in {"GET", "POST", "PUT"} :
      \E r \in IF method = "PUT" THEN {NoResponse} ELSE Answering(FewBodies) :
        \E d \in {avx_api_call(Self, method, s_list_vpn_users, caller_dict,
                               FALSE, r)} :
            /\ customer_id' = d.customer_id
            /\ results' = d.results
            /\ result' = d.result
            /\ call' = [op |-> "_avx_api_call",
                        args |-> [method |-> method,
                                  parameters |-> caller_dict],
                        response |-> IF d.sent = <<>> THEN NoResponse ELSE r,
                        sent |-> d.sent, exc |-> d.exc, ret |-> d.ret]
            /\ caller_dict' = CallerParameters(Self, s_list_vpn_users,
                                               caller_dict)
            /\ UNCHANGED <<controller_ip, login_cid, callers>>

NextPipeline ==
    \/ LoginAnswered(Answering({Envelope("true", FALSE, TRUE, 1)}))
    \/ PipelineCall

SpecPipeline == InitPipeline /\ [][NextPipeline]_vars

(***************************************************************************)
(* Overlapping calls: the two callers run list_gateways and login on the   *)
(* same session, and their steps interleave at the request (lines 109-123),*)
(* at the store of the decoded response (lines 129-137) and at the read of *)
(* what is stored (line 441, lines 157-159).                               *)
(***************************************************************************)
\* Lines 109-123 of a call of caller t: the request is sent and answered
CallerSends(t) ==
    /\ callers[t].pc = "idle"
    /\ \E op \in {"list_gateways", "login"},
          r \in Answering({ListBodies.gateways,
                           Envelope("false", TRUE, FALSE, 0)}
                            \cup {Envelope("true", FALSE, TRUE, cid) :
                                     cid \in 1..MaxTokens}) :
           callers' = [callers EXCEPT
                         ![t] = [pc |-> IF r.kind = "URLError" THEN "idle"
                                        ELSE "read",
                                 op |-> op, response |-> r,
                                 exc |-> IF r.kind = "URLError"
                                         THEN Exc("URLError", "", PyNone)
                                         ELSE NoExc,
                                 ret |-> PyNone, foreign |-> @.foreign]]
    /\ UNCHANGED <<controller_ip, customer_id, results, result, call,
                   login_cid, caller_dict>>

\* Lines 126-142 of the call of caller t: its response is decoded, stored
\* and unwrapped (the request, here the response it got, is only listed as
\* sent); the call goes on if the pipeline returned
CallerStores(t) ==
    /\ callers[t].pc = "read"
    /\ \E d \in {Interpret(Self, callers[t].response, callers[t].response.body)} :
           /\ result' = d.result
           /\ results' = d.results
           /\ callers' = [callers EXCEPT
                            ![t].pc = IF Raised(d.exc) THEN "idle"
                                      ELSE "stored",
                            ![t].exc = d.exc]
    /\ UNCHANGED <<controller_ip, customer_id, call, login_cid, caller_dict>>

\* Line 441 of list_gateways, lines 157-161 of login, run by caller t on the
\* fields self: the value is returned or the token stored, and the call ends
CallerReads(t, self) ==
    \E d \in {IF callers[t].op = "login"
               THEN StoreToken(Done(self, <<>>, NoExc, PyNone))
               ELSE ReturnResults(Done(self, <<>>, NoExc, PyNone))} :
        /\ customer_id' = d.customer_id
        /\ callers' = [callers EXCEPT
                         ![t].pc = "idle",
                         ![t].exc = d.exc,
                         ![t].ret = d.ret,
                         ![t].foreign =
                             @ \cup (IF result = json_loads(callers[t].response.body).val
                                     THEN {}
                                     ELSE IF callers[t].op = "login"
                                     THEN IF d.customer_id # customer_id
                                          THEN {"token"} ELSE {}
                                     ELSE IF Raised(d.exc) THEN {}
                                     ELSE {"results"})]

CallerReturns_ownResponse(t) ==
    /\ callers[t].pc = "stored"
    /\ \E own \in {Interpret(Self, callers[t].response, callers[t].response.body)} :
           CallerReads(t, [Self EXCEPT !.result = own.result,
                                       !.results = own.results])
    /\ UNCHANGED <<controller_ip, results, result, call, login_cid,
                   caller_dict>>

\* The statements after the pipeline read self.results and self.result as
\* the session holds them when caller t gets there
CallerReturns(t) ==
    /\ callers[t].pc = "stored"
    /\ CallerReads(t, Self)
    /\ UNCHANGED <<controller_ip, results, result, call, login_cid,
                   caller_dict>>

NextConcurrent ==
    \/ \E t \in DOMAIN callers : CallerSends(t)
    \/ \E t \in DOMAIN callers : CallerStores(t)
    \/ \E t \in DOMAIN callers : CallerReturns(t)

SpecConcurrent == Init /\ [][NextConcurrent]_vars

(***************************************************************************)
(* Construction: the program builds sessions, one after the other; a       *)
(* constructor that raises leaves the program with what it had.            *)
(***************************************************************************)
InitConstruct ==
    /\ controller_ip = NoSession.controller_ip
    /\ customer_id = NoSession.customer_id
    /\ results = NoSession.results
    /\ result = NoSession.result
    /\ call = [op |-> "start", args |-> <<>>, response |-> NoResponse,
               sent |-> <<>>, exc |-> NoExc, ret |-> PyNone]
    /\ login_cid = PyStr(<<>>)
    /\ caller_dict = <<>>
    /\ callers = NoCallers

Construct ==
    \E address \in Addresses :
        \E d \in {Aviatrix(address)} :
            /\ call' = [op |-> "__init__", args |-> [controller_ip |-> address],
                        response |-> NoResponse, sent |-> <<>>, exc |-> d.exc,
                        ret |-> PyNone]
            /\ IF Raised(d.exc)
               THEN UNCHANGED <<controller_ip, customer_id, results, result>>
               ELSE /\ controller_ip' = d.self.controller_ip
                    /\ customer_id' = d.self.customer_id
                    /\ results' = d.self.results
                    /\ result' = d.self.result
            /\ UNCHANGED <<login_cid, caller_dict, callers>>

NextConstruct == Construct

SpecConstruct == InitConstruct /\ [][NextConstruct]_vars

(***************************************************************************)
(* Properties                                                              *)
(***************************************************************************)
\* The call c got a body as its answer
Answered(c) == c.response.kind = "body"

\* The call c got a body that is valid JSON
AnsweredJSON(c) == Answered(c) /\ ~Raised(json_loads(c.response.body).exc)

\* The value the body of call c decodes to
Answer(c) == json_loads(c.response.body).val

HasField(x, key) == x.t = "dict" /\ key \in DOMAIN x.v

\* The body of call c starts with the six characters Error:
ErrorPrefixed(c) ==
    /\ Answered(c)
    /\ Len(c.response.body.v) >= 6
    /\ SubSeq(c.response.body.v, 1, 6) = s_Error

\* The answer to call c is a JSON object with return == false and a reason
FailureEnvelope(c) ==
    /\ AnsweredJSON(c)
    /\ HasField(Answer(c), s_return)
    /\ HasField(Answer(c), s_reason)
    /\ PyEq(Answer(c).v[s_return], PyBool(FALSE))

\* The answer to call c is a JSON object with return == true, results and CID
SuccessEnvelopeWithCID(c) ==
    /\ AnsweredJSON(c)
    /\ HasField(Answer(c), s_return)
    /\ HasField(Answer(c), s_results)
    /\ HasField(Answer(c), s_CID)
    /\ PyEq(Answer(c).v[s_return], PyBool(TRUE))

\* Operations whose exception, if any, is the one the pipeline raised
PipelineOps == {"_avx_api_call", "admin_email", "list_vpn_users"}

\* C1: after every completed call the session token equals the CID of the
\* most recent login that returned normally (the empty string if there was
\* none); a login that fails therefore leaves the token as it was.
C1_TokenIsLastLoginCID == PyEq(customer_id, login_cid)

\* C1 witness: a login that sent its request failed while the session held
\* the second token, and the token is still held.
C1_Witness ==
    /\ call.op = "login"
    /\ call.sent # <<>>
    /\ Raised(call.exc)
    /\ customer_id = PyStr(Token(2))

\* C2 as stated: the envelope {"return": true, "results": {"CID": c}} makes
\* login return normally with token c.
C2_Original ==
    (call.op = "login" /\ call.response.body = PyBytes(NestedCIDBody))
        => (~Raised(call.exc) /\ customer_id = PyStr(Token(1)))

\* C2 amended: when the response to login is a JSON object with return true,
\* a results member and a top-level CID member c, login returns normally and
\* the session token equals c afterwards.
C2_LoginStoresTopLevelCID ==
    (call.op = "login" /\ SuccessEnvelopeWithCID(call))
        => (~Raised(call.exc) /\ PyEq(customer_id, Answer(call).v[s_CID]))

\* C2 witness: a login answered with {"return":true,"results":"ok","CID":"t2"}
\* has stored t2.
C2_Witness ==
    /\ call.op = "login"
    /\ call.response.body = PyBytes(Envelope("true", FALSE, TRUE, 2))
    /\ customer_id = PyStr(Token(2))

C4_Original ==
    (call.op = "login" /\ FailureEnvelope(call)) => ~Raised(call.exc)

\* C4 amended: a login whose response reports failure is not absorbed; the
\* RESTException of the pipeline leaves login and the token is unchanged.
C4_LoginFailureRaises ==
    [][(call'.op = "login" /\ FailureEnvelope(call'))
           => (call'.exc.type = "RESTException" /\ customer_id' = customer_id)]_vars

\* C4 witness: a login ended with RESTException.
C4_Witness ==
    /\ call.op = "login"
    /\ FailureEnvelope(call)
    /\ call.exc.type = "RESTException"

\* C5: a call whose body starts with Error: fails with a ValueError raised
\* before JSON decoding that carries the body verbatim, and self.result and
\* self.results are unchanged.
C5_ErrorPrefixRaises ==
    [][ErrorPrefixed(call')
           => /\ IsValueError(call'.exc)
              /\ call'.exc.type # "JSONDecodeError"
              /\ PyEq(call'.exc.arg, call'.response.body)
              /\ result' = result
              /\ results' = results]_vars

\* C6: a call whose body is not JSON and does not start with Error: does
\* not raise, stores the body text as results, and a wrapper that returns
\* the results returns that text.
C6_PlainTextIsResult ==
    (Answered(call) /\ ~AnsweredJSON(call) /\ ~ErrorPrefixed(call))
        => /\ ~Raised(call.exc)
           /\ results.v = call.response.body.v
           /\ (call.op = "list_vpn_users" => call.ret.v = call.response.body.v)

\* C7: when the body decodes as JSON, a value with a true return field (and
\* results) yields its results, a value with no return field yields the
\* whole value, and neither raises.
C7_UnwrapEveryValue ==
    (call.op \in PipelineOps /\ AnsweredJSON(call))
        => /\ (HasField(Answer(call), s_return)
                 /\ HasField(Answer(call), s_results)
                 /\ PyEq(Answer(call).v[s_return], PyBool(TRUE)))
              => (~Raised(call.exc) /\ results = Answer(call).v[s_results])
           /\ ~HasField(Answer(call), s_return)
              => (~Raised(call.exc) /\ results = Answer(call))

\* C8: for every response that is a JSON object, whichever of return,
\* reason, results and CID it has, the pipeline and login either return or
\* raise ValueError, URLError or RESTException.
C8_ErrorTaxonomy ==
    (call.op \in PipelineOps \cup {"login"} /\ AnsweredJSON(call)
        /\ Answer(call).t = "dict")
        => call.exc.type \in {"none", "ValueError", "JSONDecodeError",
                              "URLError", "RESTException"}

\* C9 as stated: every request but login's carries the CID; login's carries
\* action, username and password only.
C9_Original ==
    call.sent # <<>>
        => IF call.op = "login"
           THEN DOMAIN call.sent[1].params = {s_action, s_username, s_password}
           ELSE s_CID \in DOMAIN call.sent[1].params

\* C9 amended: every request, login's included, carries a CID parameter
\* holding the token the session had when the call started (the empty
\* string on a first login, the previous token on a re-login); login's
\* request carries action, username, password and CID.
C9_EveryRequestCarriesCID ==
    [][call'.sent # <<>>
           => /\ s_CID \in DOMAIN call'.sent[1].params
              /\ call'.sent[1].params[s_CID] = customer_id
              /\ (call'.op = "login"
                    => DOMAIN call'.sent[1].params
                         = {s_action, s_username, s_password, s_CID})]_vars

\* C9 witness: a re-login sent the previous token as CID.
C9_Witness ==
    /\ call.op = "login"
    /\ call.sent # <<>>
    /\ call.sent[1].params[s_CID] = PyStr(Token(1))

\* C10: every request sent carries as CID the token of the most recent
\* login that succeeded before it; failed calls and failed logins in
\* between do not change what is sent.
C10_RequestsCarryLastLoginCID ==
    [][call'.sent # <<>> => PyEq(call'.sent[1].params[s_CID], login_cid)]_vars

\* C10 witness: a wrapper call that failed sent the second token, which is
\* still the token of the last successful login.
C10_Witness ==
    /\ call.op = "get_controller_public_ip"
    /\ Raised(call.exc)
    /\ call.sent # <<>>
    /\ call.sent[1].params[s_CID] = PyStr(Token(2))
    /\ login_cid = PyStr(Token(2))

\* C11: a pipeline call with a verb other than GET or POST raises ValueError,
\* hands no request to urlopen, and leaves the token, the stored result and
\* the stored results as they were.
C11_InvalidVerbRaises ==
    [][(call'.op = "_avx_api_call" /\ call'.args.method \notin {"GET", "POST"})
           => /\ call'.exc.type = "ValueError"
              /\ call'.sent = <<>>
              /\ customer_id' = customer_id
              /\ result' = result
              /\ results' = results]_vars

\* C11 witness: a PUT call was rejected in a session that is logged in and
\* holds a stored result.
C11_Witness ==
    /\ call.op = "_avx_api_call"
    /\ call.args.method = "PUT"
    /\ call.exc.type = "ValueError"
    /\ call.sent = <<>>
    /\ customer_id = PyStr(Token(1))
    /\ result # PyNone

\* C12: a login whose username or password is empty or None raises
\* ValueError, hands no request to urlopen, and leaves the token unchanged.
C12_EmptyCredentialsRaise ==
    [][(call'.op = "login"
          /\ (call'.args.username \in {PyNone, PyStr(<<>>)}
                \/ call'.args.password \in {PyNone, PyStr(<<>>)}))
           => /\ call'.exc.type = "ValueError"
              /\ call'.sent = <<>>
              /\ customer_id' = customer_id]_vars

\* C12 witness: a login with a username and no password was rejected while
\* the session held a token.
C12_Witness ==
    /\ call.op = "login"
    /\ call.args.username = PyStr(<<"u">>)
    /\ call.args.password = PyNone
    /\ call.exc.type = "ValueError"
    /\ call.sent = <<>>
    /\ customer_id = PyStr(Token(1))

\* C13: constructing with any non-empty address returns a session that holds
\* that address and the empty string as token; constructing with the empty
\* string or None raises ValueError and no session comes into being (what
\* the program had before is all it has).
C13_ConstructorContract ==
    [][call'.op = "__init__"
           => IF call'.args.controller_ip.t = "str"
                   /\ Len(call'.args.controller_ip.v) > 0
              THEN /\ ~Raised(call'.exc)
                   /\ controller_ip' = call'.args.controller_ip
                   /\ customer_id' = PyStr(<<>>)
              ELSE /\ call'.exc.type = "ValueError"
                   /\ UNCHANGED <<controller_ip, customer_id, results, result>>]_vars

\* C13 witness: a session for the address "h.0" exists with the empty token,
\* and the last construction, with the empty address, was refused.
C13_Witness ==
    /\ call.op = "__init__"
    /\ call.args.controller_ip = PyStr(<<>>)
    /\ call.exc.type = "ValueError"
    /\ controller_ip = PyStr(<<"h", ".", "0">>)
    /\ customer_id = PyStr(<<>>)

\* C14: no call of a public operation hands more than one request to
\* urlopen, and a call whose request failed in transport has sent exactly
\* that one request.
C14_AtMostOneRequest ==
    /\ Len(call.sent) <= 1
    /\ call.response.kind = "URLError" => Len(call.sent) = 1

\* C14 witness: get_gateway_by_name, which goes through list_gateways, ended
\* with the transport failure of its single request.
C14_Witness ==
    /\ call.op = "get_gateway_by_name"
    /\ call.response.kind = "URLError"
    /\ call.exc.type = "URLError"
    /\ Len(call.sent) = 1

BasePathURL(req) ==
    URLPart.https \o req.host.v \o URLPart.v1
        \o (IF req.path = "/v1/api" THEN URLPart.api ELSE URLPart.backend1)

\* C18: a GET request has no body and its URL is the base path, a question
\* mark and the encoded parameters; a POST request has the base path as its
\* URL and the encoded parameters as its body; either way the encoded
\* parameters hold one pair per parameter, action and CID among them.
C18_ParameterPlacement ==
    LET \* The pieces of cs between the occurrences of the character sep
        RECURSIVE SplitOn(_, _, _)
        SplitOn(cs, sep, piece) ==
            IF cs = <<>> THEN <<piece>>
            ELSE IF Head(cs) = sep
                 THEN <<piece>> \o SplitOn(Tail(cs), sep, <<>>)
                 ELSE SplitOn(Tail(cs), sep, Append(piece, Head(cs)))
        \* The action name each operation of Spec sends
        ActionOf(op) ==
            CASE op = "login" -> s_login
              [] op = "admin_email" -> s_add_admin_email_addr
              [] op = "get_controller_public_ip" -> s_show_controller_ip
              [] op = "list_vpn_users" -> s_list_vpn_users
              [] op = "_avx_api_call" -> s_list_vpn_users
        \* The pairs are one key=value per parameter of req, among them
        \* action=<name> and CID=<the CID parameter>
        QueryCarries(pairs, req, action) ==
            /\ Len(pairs) = Cardinality(DOMAIN req.params)
            /\ \A key \in DOMAIN req.params :
                   \E i \in DOMAIN pairs :
                       StartsWith(pairs[i], 1, key \o <<"=">>)
            /\ \E i \in DOMAIN pairs : pairs[i] = s_action \o <<"=">> \o action
            /\ \E i \in DOMAIN pairs :
                   pairs[i] = s_CID \o <<"=">> \o req.params[s_CID].v
    IN  call.sent # <<>>
            => /\ call.sent[1].method = "GET"
                    => /\ call.sent[1].data = PyNone
                       /\ StartsWith(call.sent[1].url, 1,
                                     BasePathURL(call.sent[1]) \o <<"?">>)
                       /\ QueryCarries(
                              SplitOn(SubSeq(call.sent[1].url,
                                             Len(BasePathURL(call.sent[1])) + 2,
                                             Len(call.sent[1].url)),
                                      "&", <<>>),
                              call.sent[1], ActionOf(call.op))
               /\ call.sent[1].method = "POST"
                    => /\ call.sent[1].url = BasePathURL(call.sent[1])
                       /\ call.sent[1].data.t = "bytes"
                       /\ QueryCarries(SplitOn(call.sent[1].data.v, "&", <<>>),
                                       call.sent[1], ActionOf(call.op))

\* C18 witness: a POST went to https://h/v1/backend1 with the body
\* public=yes&action=show_controller_ip&CID=t1
C18_Witness ==
    /\ call.op = "get_controller_public_ip"
    /\ call.sent # <<>>
    /\ call.sent[1].url
         = URLPart.https \o <<"h">> \o URLPart.v1 \o URLPart.backend1
    /\ call.sent[1].data
         = PyBytes(s_public \o <<"=">> \o s_yes \o <<"&">> \o s_action \o <<"=">>
                     \o s_show_controller_ip \o <<"&">> \o s_CID
                     \o <<"=", "t", "1">>)

\* C16: in every request of create_gateway and create_spoke_gateway a
\* keyword argument is among the transmitted parameters if and only if its
\* key is in the wrapper's allow-list, the transmitted keys are the required
\* ones, action, CID and the allowed keyword keys, and a keyword argument
\* that is not allowed causes no exception of its own.
C16_AllowListFilters ==
    LET \* The keys create_gateway (lines 301-307) and create_spoke_gateway
        \* (lines 336-342) always transmit
        RequiredKeys(op) ==
            IF op = "create_gateway"
            THEN {Key.account_name, Key.cloud_type, Key.gw_name, Key.vpc_id,
                  Key.vpc_reg, Key.vpc_size, Key.vpc_net}
            ELSE {Key.account_name, Key.cloud_type, Key.region, Key.vpc_id,
                  Key.public_subnet, Key.gw_name, Key.gw_size}
        \* The allow-list each of them filters with
        AllowListOf(op) ==
            IF op = "create_gateway" THEN CREATE_GW_ALLOWED
            ELSE CREATE_SPOKE_GW_ALLOWED
    IN  (call.op \in {"create_gateway", "create_spoke_gateway"}
         /\ call.sent # <<>>)
            => /\ \A i \in DOMAIN call.args.kwargs :
                    (/\ call.args.kwargs[i][1] \in DOMAIN call.sent[1].params
                     /\ call.sent[1].params[call.args.kwargs[i][1]]
                          = call.args.kwargs[i][2])
                        <=> call.args.kwargs[i][1] \in AllowListOf(call.op)
               /\ DOMAIN call.sent[1].params
                    = RequiredKeys(call.op) \cup {s_action, s_CID}
                        \cup ({call.args.kwargs[i][1] :
                                 i \in DOMAIN call.args.kwargs}
                                \cap AllowListOf(call.op))
               /\ call.exc.type \in {"none", "URLError", "RESTException"}
               /\ PyEq(call.response.body,
                       PyBytes(Envelope("true", FALSE, TRUE, 0)))
                    => ~Raised(call.exc)

\* C16 witness: create_gateway, given enable_nat, dns_server and foo, sent
\* enable_nat and neither of the others, and returned.
C16_Witness ==
    /\ call.op = "create_gateway"
    /\ call.args.kwargs = Kwargs.mixed
    /\ call.sent # <<>>
    /\ ~Raised(call.exc)
    /\ Key.enable_nat \in DOMAIN call.sent[1].params
    /\ Key.dns_server \notin DOMAIN call.sent[1].params
    /\ <<"f", "o", "o">> \notin DOMAIN call.sent[1].params

\* C17: when the gateway list is a success with a list of gateway records,
\* get_gateway_by_name does not raise; it returns the record at the least
\* position whose vpc_name is the requested name, and None when no record,
\* or no record of that name, is in the list.
C17_FirstExactMatch ==
    LET \* The answer to call c is a success whose results is a list of
        \* objects that all have a vpc_name
        GatewayListAnswer(c) ==
            /\ AnsweredJSON(c)
            /\ HasField(Answer(c), s_return)
            /\ HasField(Answer(c), s_results)
            /\ PyEq(Answer(c).v[s_return], PyBool(TRUE))
            /\ Answer(c).v[s_results].t = "list"
            /\ \A i \in DOMAIN Answer(c).v[s_results].v :
                   HasField(Answer(c).v[s_results].v[i], Key.vpc_name)
        \* The positions in the list gws of the records named name
        Named(gws, name) == {i \in DOMAIN gws : gws[i].v[Key.vpc_name] = name}
    IN  (call.op = "get_gateway_by_name" /\ GatewayListAnswer(call))
            => /\ ~Raised(call.exc)
               /\ IF Named(Answer(call).v[s_results].v, call.args.gw_name) = {}
                  THEN call.ret = PyNone
                  ELSE \E i \in Named(Answer(call).v[s_results].v,
                                      call.args.gw_name) :
                           /\ call.ret = Answer(call).v[s_results].v[i]
                           /\ \A j \in Named(Answer(call).v[s_results].v,
                                             call.args.gw_name) : i <= j

\* C17 witness: looking up a in the list ab, a, b, a returned the second
\* record, the one with id 1.
C17_Witness ==
    /\ call.op = "get_gateway_by_name"
    /\ call.args.gw_name = PyStr(<<"a">>)
    /\ call.response.body = PyBytes(ListBodies.gateways)
    /\ call.ret = PyDict((Key.vpc_name :> PyStr(<<"a">>)) @@ (Key.id :> PyInt(1)))

\* C19: every request of the statistics wrappers, of attach_vpn_user and of
\* get_controller_public_ip goes to /v1/backend1, and every request of any
\* other modelled operation to /v1/api, whatever the arguments and the
\* session state.
C19_BackendPath ==
    call.sent # <<>>
        => /\ call.sent[1].path
                = (IF call.op \in {"get_gateway_statistic_over_time",
                                   "get_current_gateway_statistics",
                                   "attach_vpn_user",
                                   "get_controller_public_ip"}
                   THEN "/v1/backend1" ELSE "/v1/api")
           /\ StartsWith(call.sent[1].url, 1, BasePathURL(call.sent[1]))

C21_PeersAreThePairList ==
    (call.op \in {"list_peers", "list_peers_vpc_pairs"} /\ call.sent # <<>>)
        => /\ call.sent[1].method = "GET"
           /\ call.sent[1].data = PyNone
           /\ call.sent[1].url
                = BasePathURL([host |-> controller_ip, path |-> "/v1/api"])
                    \o <<"?">> \o s_action \o <<"=">>
                    \o ActionName.list_peer_vpc_pairs \o <<"&">> \o s_CID
                    \o <<"=">> \o customer_id.v
           /\ ~Raised(call.exc)
                => /\ AnsweredJSON(call)
                   /\ HasField(Answer(call), s_results)
                   /\ HasField(Answer(call).v[s_results], Key.pair_list)
                   /\ call.ret = Answer(call).v[s_results].v[Key.pair_list]

\* C21 witness: the alias, answered with the pair list ["p"] in a session
\* that holds a token, returned that list.
C21_Witness ==
    /\ call.op = "list_peers_vpc_pairs"
    /\ call.response.body = PyBytes(ListBodies.pairs)
    /\ call.ret = PyList(<<PyStr(<<"p">>)>>)
    /\ customer_id = PyStr(Token(1))

\* C22: decoding the query string of a GET, or the body of a POST, as a
\* form decoder does (split at &, split each piece at its first =, + is a
\* blank, %XX is one character) yields one pair for action, one for CID and
\* one for every other key of the caller's dictionary, each with exactly
\* the value the caller gave.
C22_EncodingRoundTrip ==
    LET RECURSIVE SplitOn(_, _, _)
        SplitOn(cs, sep, piece) ==
            IF cs = <<>> THEN <<piece>>
            ELSE IF Head(cs) = sep
                 THEN <<piece>> \o SplitOn(Tail(cs), sep, <<>>)
                 ELSE SplitOn(Tail(cs), sep, Append(piece, Head(cs)))
        \* the character whose code is the two hexadecimal digits hi, lo
        Unhex(hi, lo) ==
            CASE <<hi, lo>> = <<"2", "0">> -> " "
              [] <<hi, lo>> = <<"2", "5">> -> "%"
              [] <<hi, lo>> = <<"2", "6">> -> "&"
              [] <<hi, lo>> = <<"2", "B">> -> "+"
              [] <<hi, lo>> = <<"2", "F">> -> "/"
              [] <<hi, lo>> = <<"3", "D">> -> "="
              [] OTHER -> "?"
        RECURSIVE unquote_plus(_)
        unquote_plus(cs) ==
            IF cs = <<>> THEN <<>>
            ELSE IF Head(cs) = "%" /\ Len(cs) >= 3
            THEN <<Unhex(cs[2], cs[3])>> \o unquote_plus(SubSeq(cs, 4, Len(cs)))
            ELSE <<IF Head(cs) = "+" THEN " " ELSE Head(cs)>>
                     \o unquote_plus(Tail(cs))
        \* the key and the value of one piece: it is split at its first =
        Pair(piece) ==
            <<unquote_plus(SplitOn(piece, "=", <<>>)[1]),
              unquote_plus(SubSeq(piece,
                                  Len(SplitOn(piece, "=", <<>>)[1]) + 2,
                                  Len(piece)))>>
        parse_qsl(text) ==
            [i \in DOMAIN SplitOn(text, "&", <<>>) |->
                Pair(SplitOn(text, "&", <<>>)[i])]
        \* what the caller passed, but for the two keys the pipeline sets
        Given(items) ==
            {<<items[i][1], items[i][2].v>> :
                i \in {j \in DOMAIN items : items[j][1] \notin {s_action, s_CID}}}
        RoundTrip(pairs, items, cid) ==
            /\ {pairs[i] : i \in DOMAIN pairs}
                 = Given(items) \cup {<<s_action, s_list_vpn_users>>,
                                      <<s_CID, cid>>}
            /\ Len(pairs) = Cardinality(Given(items)) + 2
    IN  (call.op = "_avx_api_call" /\ call.sent # <<>>)
            => RoundTrip(
                   parse_qsl(IF call.sent[1].method = "GET"
                             THEN SubSeq(call.sent[1].url,
                                         Len(BasePathURL(call.sent[1])) + 2,
                                         Len(call.sent[1].url))
                             ELSE call.sent[1].data.v),
                   call.args.parameters, customer_id.v)

\* C22 witness: a GET carried the value "& " of key k as k=%26+ and the
\* decoder got exactly "& " back.
C22_Witness ==
    /\ call.op = "_avx_api_call"
    /\ call.sent # <<>>
    /\ call.args.method = "GET"
    /\ call.args.parameters = <<<<<<"k">>, PyStr(<<"&", " ">>)>>>>
    /\ call.sent[1].url
         = BasePathURL(call.sent[1])
             \o <<"?", "k", "=", "%", "2", "6", "+", "&">> \o s_action
             \o <<"=">> \o s_list_vpn_users \o <<"&">> \o s_CID \o <<"=">>

\* C28: a pipeline call, whether it returns or raises, leaves the dictionary
\* it was given with the keys and values it had; the action and CID it
\* transmits are not added to it.
C28_CallerDictionaryUntouched ==
    [][call'.op = "_avx_api_call"
           => /\ caller_dict' = caller_dict
              /\ call'.args.parameters = caller_dict
              /\ \A key \in {s_action, s_CID} :
                     (\E i \in DOMAIN caller_dict' : caller_dict'[i][1] = key)
                         <=> (\E i \in DOMAIN caller_dict :
                                  caller_dict[i][1] = key)]_vars

\* C28 witness: a call that returned transmitted k, action and CID, and the
\* caller's dictionary still holds k alone.
C28_Witness ==
    /\ call.op = "_avx_api_call"
    /\ ~Raised(call.exc)
    /\ call.sent # <<>>
    /\ DOMAIN call.sent[1].params = {<<"k">>, s_action, s_CID}
    /\ caller_dict = <<<<<<"k">>, PyStr(<<"a", "&">>)>>>>

\* C25: a call that ends with the ValueError of an invalid verb, or with the
\* URLError of a request that got no response, leaves the controller
\* address, the token, the stored result and the stored results as they
\* were before the call.
C25_EarlyFailureKeepsSession ==
    [][(\/ call'.exc.type = "URLError"
        \/ /\ call'.op = "_avx_api_call"
           /\ call'.sent = <<>>
           /\ call'.exc.type = "ValueError")
           => /\ controller_ip' = controller_ip
              /\ customer_id' = customer_id
              /\ result' = result
              /\ results' = results]_vars

\* C25 witness: list_vpn_users got no response in a session that holds a
\* token and the results of an earlier call, and both are still there.
C25_Witness ==
    /\ call.op = "list_vpn_users"
    /\ call.exc.type = "URLError"
    /\ customer_id = PyStr(Token(2))
    /\ results = PyStr(s_ok)
    /\ result # PyNone

\* C26: every request of a wrapper carries as action the action name fixed
\* in that wrapper and as CID the token the session holds when the request
\* is built, whatever arguments and keyword arguments the caller gave.
C26_ActionAndCIDAreFixed ==
    [][LET ActionOf(op) ==
               CASE op = "login" -> s_login
                 [] op = "create_gateway" -> ActionName.connect_container
                 [] op = "create_spoke_gateway" -> ActionName.create_spoke_gw
                 [] op \in {"list_peers", "list_peers_vpc_pairs"}
                      -> ActionName.list_peer_vpc_pairs
                 [] op = "get_gateway_by_name" -> ActionName.list_vpcs_summary
                 [] op = "attach_vpn_user" -> ActionName.attach_vpn_user
                 [] op = "get_gateway_statistic_over_time"
                      -> ActionName.get_statistics
                 [] op = "get_current_gateway_statistics"
                      -> ActionName.show_packets_stat_for_gw
                 [] op = "get_controller_public_ip" -> s_show_controller_ip
                 [] op = "set_fw_tag_members"
                      -> ActionName.update_policy_members
       IN  call'.sent # <<>>
               => /\ {s_action, s_CID} \subseteq DOMAIN call'.sent[1].params
                  /\ call'.sent[1].params[s_action]
                       = PyStr(ActionOf(call'.op))
                  /\ call'.sent[1].params[s_CID] = customer_id]_vars

\* C26 witness: create_gateway, called with the keyword arguments action=x
\* and CID=x in a session whose token is t1, sent action=connect_container
\* and CID=t1.
C26_Witness ==
    /\ call.op = "create_gateway"
    /\ call.args.kwargs = Kwargs.reserved
    /\ call.sent # <<>>
    /\ call.sent[1].params[s_action] = PyStr(ActionName.connect_container)
    /\ call.sent[1].params[s_CID] = PyStr(Token(1))

\* C27: every request of create_gateway and of create_spoke_gateway carries
\* each of its seven required parameters with the value of the
\* corresponding required argument (a, 1, g, v, r, s, n in the calls made
\* here), whatever the keyword arguments.
C27_RequiredParametersKept ==
    LET Sent(key, value) ==
            /\ key \in DOMAIN call.sent[1].params
            /\ call.sent[1].params[key] = value
    IN  /\ (call.op = "create_gateway" /\ call.sent # <<>>)
               => /\ Sent(Key.account_name, PyStr(<<"a">>))
                  /\ Sent(Key.cloud_type, PyInt(1))
                  /\ Sent(Key.gw_name, PyStr(<<"g">>))
                  /\ Sent(Key.vpc_id, PyStr(<<"v">>))
                  /\ Sent(Key.vpc_reg, PyStr(<<"r">>))
                  /\ Sent(Key.vpc_size, PyStr(<<"s">>))
                  /\ Sent(Key.vpc_net, PyStr(<<"n">>))
        /\ (call.op = "create_spoke_gateway" /\ call.sent # <<>>)
               => /\ Sent(Key.account_name, PyStr(<<"a">>))
                  /\ Sent(Key.cloud_type, PyInt(1))
                  /\ Sent(Key.region, PyStr(<<"r">>))
                  /\ Sent(Key.vpc_id, PyStr(<<"v">>))
                  /\ Sent(Key.public_subnet, PyStr(<<"n">>))
                  /\ Sent(Key.gw_name, PyStr(<<"g">>))
                  /\ Sent(Key.gw_size, PyStr(<<"s">>))

\* C29: in every request of attach_vpn_user, use_profile is 'true' when the
\* profile_name given is neither None nor empty and 'false' otherwise;
\* profile_name is sent, with the value given, exactly when use_profile is
\* 'true'; user_email and saml_endpoint are sent, with the value given,
\* exactly when the one given is neither None nor empty.
C29_OptionalVpnUserParameters ==
    LET NonEmpty(x) == x \notin {PyNone, PyStr(<<>>)}
        SentIff(key, given) ==
            /\ key \in DOMAIN call.sent[1].params <=> NonEmpty(given)
            /\ key \in DOMAIN call.sent[1].params
                 => call.sent[1].params[key] = given
    IN  (call.op = "attach_vpn_user" /\ call.sent # <<>>)
            => /\ call.sent[1].params[Key.use_profile]
                    = PyStr(IF NonEmpty(call.args.profile_name) THEN s_true
                            ELSE s_false)
               /\ Key.profile_name \in DOMAIN call.sent[1].params
                    <=> call.sent[1].params[Key.use_profile] = PyStr(s_true)
               /\ SentIff(Key.profile_name, call.args.profile_name)
               /\ SentIff(Key.user_email, call.args.user_email)
               /\ SentIff(Key.saml_endpoint, call.args.saml_endpoint)

\* C29 witness: attach_vpn_user with an e-mail address, the empty profile
\* name and no SAML endpoint sent user_email and use_profile=false, and
\* neither profile_name nor saml_endpoint.
C29_Witness ==
    /\ call.op = "attach_vpn_user"
    /\ call.sent # <<>>
    /\ call.args.profile_name = PyStr(<<>>)
    /\ call.args.saml_endpoint = PyNone
    /\ call.sent[1].params[Key.use_profile] = PyStr(s_false)
    /\ call.sent[1].params[Key.user_email] = PyStr(<<"e", "@", "x">>)
    /\ Key.profile_name \notin DOMAIN call.sent[1].params
    /\ Key.saml_endpoint \notin DOMAIN call.sent[1].params

\* C30: the request of set_fw_tag_members for a list of n members carries
\* tag_name, action, CID and 2n member parameters and nothing else:
\* new_policies[i][name] and new_policies[i][cidr] for every i in 0..n-1,
\* holding the name and the cidr of member i in list order; its body has
\* 2n + 3 pairs.  For the empty list it carries tag_name, action and CID.
C30_MembersAreNumbered ==
    LET Index(i) == <<"0", "1", "2", "3", "4", "5", "6", "7", "8", "9">>[i + 1]
        KeyOf(i, field) ==
            Key.new_policies \o <<"[", Index(i), "]", "[">> \o field \o <<"]">>
        Ampersands(cs) == Cardinality({i \in DOMAIN cs : cs[i] = "&"})
        Numbered(params, members, body) ==
            /\ DOMAIN params
                 = {Key.tag_name, s_action, s_CID}
                     \cup {KeyOf(i, field) : i \in 0..(Len(members) - 1),
                                             field \in {Key.name, Key.cidr}}
            /\ Cardinality(DOMAIN params) = 2 * Len(members) + 3
            /\ Ampersands(body) = 2 * Len(members) + 2
            /\ \A i \in 0..(Len(members) - 1) :
                   /\ params[KeyOf(i, Key.name)] = members[i + 1].v[Key.name]
                   /\ params[KeyOf(i, Key.cidr)] = members[i + 1].v[Key.cidr]
    IN  (call.op = "set_fw_tag_members" /\ call.sent # <<>>)
            => Numbered(call.sent[1].params, call.args.members.v,
                        call.sent[1].data.v)

\* C30 witness: the members b, a (in this order) were sent as number 0 and
\* number 1.
C30_Witness ==
    /\ call.op = "set_fw_tag_members"
    /\ call.sent # <<>>
    /\ Len(call.args.members.v) = 2
    /\ call.sent[1].data.v
         = Key.tag_name \o <<"=", "g", "&">> \o Key.new_policies
             \o <<"%", "5", "B", "0", "%", "5", "D", "%", "5", "B">> \o Key.name
             \o <<"%", "5", "D", "=", "b", "&">> \o Key.new_policies
             \o <<"%", "5", "B", "0", "%", "5", "D", "%", "5", "B">> \o Key.cidr
             \o <<"%", "5", "D", "=", "2", "&">> \o Key.new_policies
             \o <<"%", "5", "B", "1", "%", "5", "D", "%", "5", "B">> \o Key.name
             \o <<"%", "5", "D", "=", "a", "&">> \o Key.new_policies
             \o <<"%", "5", "B", "1", "%", "5", "D", "%", "5", "B">> \o Key.cidr
             \o <<"%", "5", "D", "=", "1", "&">> \o s_action \o <<"=">>
             \o ActionName.update_policy_members \o <<"&">> \o s_CID \o <<"=">>

\* C24: when calls do not overlap, a call that returns has got a JSON
\* answer, and everything it hands on comes from that answer: the stored
\* result is the decoded answer, the stored results its results member (the
\* answer itself when it has no return member), list_vpn_users returns
\* these results and get_controller_public_ip their public_ip member, and
\* the token login leaves is the CID of the answer when its return is true
\* and the token of before otherwise.
C24_OwnResponseOnly ==
    [][LET \* what the answer to call c holds as its results
           OwnResults(c) ==
               IF HasField(Answer(c), s_return) THEN Answer(c).v[s_results]
               ELSE Answer(c)
           \* the answer to call c says return is true
           ReturnIsTrue(c) ==
               /\ HasField(Answer(c), s_return)
               /\ Answer(c).v[s_return] \notin {PyBool(FALSE), PyInt(0), PyNone}
       IN  (call'.sent # <<>> /\ ~Raised(call'.exc))
               => /\ AnsweredJSON(call')
                  /\ result' = Answer(call')
                  /\ HasField(Answer(call'), s_return)
                       => HasField(Answer(call'), s_results)
                  /\ results' = OwnResults(call')
                  /\ call'.op = "list_vpn_users"
                       => call'.ret = OwnResults(call')
                  /\ call'.op = "get_controller_public_ip"
                       => call'.ret = OwnResults(call').v[s_public_ip]
                  /\ call'.op = "login"
                       => customer_id' = IF ReturnIsTrue(call')
                                         THEN Answer(call').v[s_CID]
                                         ELSE customer_id
                  /\ call'.op # "login" => customer_id' = customer_id]_vars

\* C24 witness: in a session that has logged in, list_vpn_users was
\* answered with the results [7, "ok"] and returned them.
C24_Witness ==
    /\ call.op = "list_vpn_users"
    /\ ~Raised(call.exc)
    /\ call.response.body = PyBytes(LooseBody)
    /\ call.ret = PyList(<<PyInt(7), PyStr(s_ok)>>)
    /\ customer_id = PyStr(Token(1))

\* C23: nothing protects the session against overlapping calls.  When the
\* calls of two callers interleave, the statement after the pipeline works on
\* whatever the session holds when it runs, whichever call's response put it
\* there: list_gateways returns self.results as it is then, and login stores
\* the CID of self.result as it is then when its return is true.  So a
\* wrapper can return the value decoded from the other call's response and a
\* login can store a token from a response that was not its own.
C23_NoConcurrentAccessProtection ==
    [][\A t \in DOMAIN callers :
          (callers[t].pc = "stored" /\ callers'[t].pc = "idle") =>
              IF callers[t].op = "list_gateways"
              THEN /\ callers'[t].ret = results
                   /\ ~Raised(callers'[t].exc)
              ELSE LET ret == GetItem(result, s_return)
                       cid == GetItem(result, s_CID)
                   IN  (~Raised(ret.exc) /\ Truthy(ret.val)
                            /\ ~Raised(cid.exc))
                           => customer_id' = cid.val]_vars

\* Caller 1 has returned from a list_gateways the results that the response
\* of caller 2 had stored, and caller 2 has ended a login that was answered
\* with one token and stored another, the one in the response of caller 1
C23_Witness ==
    /\ "results" \in callers[1].foreign
    /\ callers[1].op = "list_gateways"
    /\ callers[2].pc = "idle"
    /\ callers[2].op = "login"
    /\ "token" \in callers[2].foreign
    /\ callers[2].response.body = PyBytes(Envelope("true", FALSE, TRUE, 1))
    /\ ~Raised(callers[2].exc)
    /\ customer_id
         = GetItem(json_loads(PyBytes(Envelope("true", FALSE, TRUE, 2))).val,
                   s_CID).val

====
